---- MODULE Spec2Model ----
(***************************************************************************)
(* tvDashApi: the live distribution engine.                                *)
(*                                                                         *)
(*   scheduler.js   (src/unnamed/part_003)  currentMode, the cron task,    *)
(*                                          refreshDashboardData           *)
(*   aggregators    (src/unnamed/part_002)  getDashboardData               *)
(*   modeManager.js                         filterByMode, isValidMode      *)
(*   wsHandler.js                           the client set and broadcast   *)
(*   server.js                              the three dashboard routes     *)
(*                                                                         *)
(* Node runs every handler to its next await as one step, so an action is  *)
(* the synchronous stretch of a handler between two awaits.                *)
(***************************************************************************)
EXTENDS Integers, Sequences, FiniteSets, TLC

VARIABLES
    phase,          \* server.js: "boot" | "listening" | "terminated"
    currentMode,    \* scheduler.js: let currentMode
    scheduledTask,  \* scheduler.js: let scheduledTask (0 is null, else a task id)
    tasks,          \* node-cron tasks created so far: task id -> "running" | "stopped"
    cycles,         \* refreshDashboardData invocations awaiting getDashboardData
    nextCycle,      \* next cycle id
    reqs,           \* HTTP requests whose handler is suspended at an await
    nextReq,        \* next request id
    lastResponse,   \* the response res.json(...) sent last (Null before the first)
    clients,        \* wsHandler.clients
    sockets,        \* socket id -> [readyState, isAlive]
    inbox,          \* socket id -> the messages ws.send() has put on the wire
    events,         \* number of outside events so far (requests, ticks, sockets, calls)
    upstream,       \* what the upstream sources answer at the moment
    clock,          \* wall clock, in seconds
    envInterval,    \* process.env.REFRESH_INTERVAL, as parseInt reads it (0: unset)
    tickTimes,      \* the clock at the last two cron ticks, latest first
    env,            \* which sources process.env configures: [weather, calendar, todoist]
    nowMs,          \* Date.now(), in milliseconds
    cachedWeather,  \* weatherAggregator.js: let cachedWeather (Null is null)
    cacheTimestamp, \* weatherAggregator.js: let cacheTimestamp (0 is null)
    gets,           \* the getWeather() calls made so far, in call order
    aggs,           \* the getDashboardData() invocations made so far, in call order
    probes,         \* socket id -> health checks it has met since it last acknowledged
    healthTicks,    \* number of times the health check interval has fired
    writeErrors     \* sockets with a failed write whose 'error' event is still to come

vars == <<phase, currentMode, scheduledTask, tasks, cycles, nextCycle, reqs, nextReq,
          lastResponse, clients, sockets, inbox, events, upstream, clock,
          envInterval, tickTimes, env, nowMs, cachedWeather, cacheTimestamp, gets,
          aggs, probes, healthTicks, writeErrors>>

schedVars == <<currentMode, scheduledTask, tasks>>
connVars  == <<clients, sockets, inbox>>
timeVars  == <<clock, envInterval, tickTimes>>
cacheVars == <<nowMs, cachedWeather, cacheTimestamp, gets>>
sourceVars == <<env, cacheVars, aggs>>
healthVars == <<probes, healthTicks, writeErrors>>

(***************************************************************************)
(* Bounds of the model.                                                    *)
(***************************************************************************)
MaxEvents == 2      \* outside events (requests, ticks, socket events, calls) in one run
MaxClock == 130     \* seconds of wall clock explored
MaxInterval == 125  \* largest REFRESH_INTERVAL explored
MaxInFlight == 1    \* cycles in flight while the clock runs
MaxGets == 3        \* getWeather() calls in one run
MaxNow == 1210001   \* Date.now() explored up to here
MaxAggs == 2        \* getDashboardData() invocations in one run
MaxHealthTicks == 3 \* firings of the health check interval in one run
MaxMessages == 2    \* payloads the clients send in one run

(***************************************************************************)
(* Values.                                                                 *)
(***************************************************************************)
Null == [null |-> TRUE]

\* the query or body carried no mode (undefined, or the empty string: both falsy)
NoMode == ""

getAvailableModes == {"personal", "guest", "briefing", "weather", "art"}

RequestModes == getAvailableModes \cup {"bogus", NoMode}

\* the mode of the requests made on each route
PostModes == RequestModes
DataModes == {NoMode, "guest", "weather", "bogus"}
RefreshModes == {NoMode, "weather", "bogus"}

isValidMode_anything(mode) == TRUE

isValidMode(mode) == mode \in getAvailableModes

NumQuotes == 12

GUEST_QUOTES == [i \in 0..(NumQuotes - 1) |-> [quote |-> i]]

\* Math.floor(Math.random() * GUEST_QUOTES.length): any index of the pool
getRandomQuote == {GUEST_QUOTES[i] : i \in DOMAIN GUEST_QUOTES}

(***************************************************************************)
(* What the upstream sources hand to one aggregation.                      *)
(***************************************************************************)
\* getWeatherData's static fallback
DefaultWeather ==
    [temp |-> 72, condition |-> "Partly Cloudy", icon |-> "02d", high |-> 78,
     low |-> 65, humidity |-> 55, windSpeed |-> 8]

\* a weather record as getWeather formats a live reading
LiveWeather ==
    [temp |-> 60, condition |-> "Rain", icon |-> "10d", feelsLike |-> 58,
     description |-> "light rain", humidity |-> 80, windSpeed |-> 5, high |-> 62,
     low |-> 55]

getMockTodos ==
    << [text |-> "Review PRs", urgent |-> TRUE, done |-> FALSE, id |-> "mock-1",
        dueDate |-> "now+1h", priority |-> 4, labels |-> <<"work">>],
       [text |-> "Update documentation", urgent |-> FALSE, done |-> FALSE,
        id |-> "mock-2", dueDate |-> "now+4h", priority |-> 2, labels |-> <<"work">>],
       [text |-> "Team sync", urgent |-> FALSE, done |-> FALSE, id |-> "mock-3",
        dueDate |-> "now+4h", priority |-> 3, labels |-> <<"meeting">>] >>

\* todos as getTodos formats the tasks Todoist returned
LiveTodos ==
    << [text |-> "Pay rent", urgent |-> TRUE, done |-> FALSE, id |-> "t1",
        dueDate |-> "today", priority |-> 1, labels |-> <<>>] >>

\* getCalendarData when the calendar is not configured, is empty or fails
NoCalendar == [nextEvent |-> Null, agenda |-> <<>>]

\* getCalendarData for a day with one past and one coming event
LiveCalendar ==
    [nextEvent |-> [title |-> "Standup", time |-> "2:00 PM", minutesUntil |-> 45,
                    location |-> "", startTime |-> "T14:00"],
     agenda |-> << [time |-> "9:00 AM", title |-> "Breakfast", done |-> TRUE,
                    location |-> "", isAllDay |-> FALSE],
                   [time |-> "2:00 PM", title |-> "Standup", done |-> FALSE,
                    location |-> "", isAllDay |-> FALSE] >>]

getLocalEvents ==
    << [title |-> "Jazz Night", type |-> "music", time |-> "7:00 PM",
        venue |-> "Blue Note"],
       [title |-> "Art Gallery Opening", type |-> "art", time |-> "6:00 PM",
        venue |-> "Modern Art Museum"] >>

getLLMMessage == [active |-> FALSE, message |-> "", urgency |-> "none"]

\* what getWeatherData, getCalendarData and getTodos return to one aggregation:
\* every source down or unconfigured, or every source answering
Upstream ==
    { [weather |-> DefaultWeather, calendar |-> NoCalendar, todos |-> getMockTodos],
      [weather |-> LiveWeather, calendar |-> LiveCalendar, todos |-> LiveTodos] }

(***************************************************************************)
(* modeManager.js                                                          *)
(***************************************************************************)

Slice3(s) == IF Len(s) <= 3 THEN s ELSE SubSeq(s, 1, 3)

\* data.f is neither null nor undefined
Has(data, f) == f \in DOMAIN data

createBriefingSummary_sliceFirst(data) ==
    LET isUrgent(t) == t.urgent
        notDone(a) == ~a.done
    IN  [weather |-> Null,
         nextEvent |-> Null,
         todoCount |-> IF Has(data, "todos") THEN Len(data.todos) ELSE 0,
         urgentTodoCount |-> IF Has(data, "todos")
                             THEN Len(SelectSeq(data.todos, isUrgent)) ELSE 0,
         agendaCount |-> IF Has(data, "agenda") THEN Len(data.agenda) ELSE 0,
         upcomingAgenda |-> IF Has(data, "agenda")
                            THEN SelectSeq(Slice3(data.agenda), notDone) ELSE << >>]

createBriefingSummary(data) ==
    LET isUrgent(t) == t.urgent
        notDone(a) == ~a.done
    IN  [weather |-> IF data.weather # Null
                     THEN [temp |-> data.weather.temp,
                           condition |-> data.weather.condition]
                     ELSE Null,
         nextEvent |-> IF data.nextEvent # Null
                       THEN [title |-> data.nextEvent.title,
                             time |-> data.nextEvent.time,
                             minutesUntil |-> data.nextEvent.minutesUntil]
                       ELSE Null,
         todoCount |-> IF Has(data, "todos") THEN Len(data.todos) ELSE 0,
         urgentTodoCount |-> IF Has(data, "todos")
                             THEN Len(SelectSeq(data.todos, isUrgent)) ELSE 0,
         agendaCount |-> IF Has(data, "agenda") THEN Len(data.agenda) ELSE 0,
         upcomingAgenda |-> IF Has(data, "agenda")
                            THEN Slice3(SelectSeq(data.agenda, notDone)) ELSE << >>]

\* {mode, weather, localEvents, ...rest}: a key whose value is undefined is
\* not part of the object as it is serialised
WithLocalEvents(data, rest) ==
    IF Has(data, "localEvents") THEN [localEvents |-> data.localEvents] @@ rest
    ELSE rest

filterByMode_artAll(mode, data, quote) ==
    [mode |-> mode, weather |-> data.weather,
     localEvents |-> IF Has(data, "localEvents") THEN data.localEvents ELSE << >>,
     guestQuote |-> quote]

filterByMode_guestTodos(mode, data, quote) ==
    [mode |-> mode, weather |-> data.weather,
     todoCount |-> IF Has(data, "todos") THEN Len(data.todos) ELSE 0,
     guestQuote |-> quote]

filterByMode_relabel(mode, data, quote) == [data EXCEPT !.mode = mode]

\* quote: the draw getRandomQuote() makes in the guest and art branches
filterByMode(mode, data, quote) ==
    LET artOrMusic(e) == e.type = "art" \/ e.type = "music"
    IN  CASE mode = "personal" -> data
          [] mode = "guest" ->
                WithLocalEvents(data, [mode |-> "guest", weather |-> data.weather,
                                       guestQuote |-> quote])
          [] mode = "briefing" ->
                [mode |-> "briefing", weather |-> data.weather,
                 summary |-> createBriefingSummary(data)]
          [] mode = "weather" ->
                WithLocalEvents(data, [mode |-> "weather", weather |-> data.weather])
          [] mode = "art" ->
                [mode |-> "art", weather |-> data.weather,
                 localEvents |-> IF Has(data, "localEvents")
                                 THEN SelectSeq(data.localEvents, artOrMusic)
                                 ELSE << >>,
                 guestQuote |-> quote]
          [] OTHER -> data

\* the modes whose branch of filterByMode draws a quote
DrawsQuote(mode) == mode \in {"guest", "art"}

\* the draws filterByMode(mode, ...) can make (one dummy draw when it makes none)
QuoteDraws(mode) == IF DrawsQuote(mode) THEN getRandomQuote ELSE {GUEST_QUOTES[0]}

(***************************************************************************)
(* aggregators/index.js                                                    *)
(***************************************************************************)
fullData(mode, up) ==
    [mode |-> mode, weather |-> up.weather, nextEvent |-> up.calendar.nextEvent,
     todos |-> up.todos, agenda |-> up.calendar.agenda,
     localEvents |-> getLocalEvents, llmMessage |-> getLLMMessage]

\* the value getDashboardData(mode) resolves to
getDashboardData(mode, up, quote) == filterByMode(mode, fullData(mode, up), quote)

(***************************************************************************)
(* wsHandler.js                                                            *)
(***************************************************************************)
\* the keys sendDashboardUpdate copies into the message's data
UpdateFields ==
    {"mode", "weather", "nextEvent", "todos", "agenda", "localEvents", "llmMessage"}

\* the data of the dashboard:update message as it is on the wire: a key whose
\* value is undefined in dashboardData is dropped by JSON.stringify
sendDashboardUpdate(dashboardData) ==
    [f \in UpdateFields \cap DOMAIN dashboardData |-> dashboardData[f]]

\* one more outside event, within the budget of the run
Event == events < MaxEvents /\ events' = events + 1

Receivers_all == clients

\* the sockets client.send(message) is called for
Receivers == {s \in clients : sockets[s].readyState = "OPEN"}

\* inbox after broadcast(payload); cause tells which handler sent it
broadcast(event, data, cause) ==
    [s \in DOMAIN inbox |->
        IF s \in Receivers
        THEN Append(inbox[s], [event |-> event, data |-> data, cause |-> cause])
        ELSE inbox[s]]

AcceptCause(s) ==
    [by |-> "accept", id |-> s, origin |-> "accept", req |-> 0, mode |-> ""]

getActiveConnectionCount == Cardinality(clients)

onConnection_silent ==
    LET s == Cardinality(DOMAIN sockets) + 1
    IN  /\ sockets' = sockets @@ (s :> [readyState |-> "OPEN", isAlive |-> TRUE])
        /\ clients' = clients \cup {s}
        /\ inbox' = inbox @@ (s :> << >>)

onConnection_pushes ==
    LET s == Cardinality(DOMAIN sockets) + 1
        cause == [by |-> "accept", id |-> s, origin |-> "accept", req |-> 0, mode |-> ""]
    IN  /\ sockets' = sockets @@ (s :> [readyState |-> "OPEN", isAlive |-> TRUE])
        /\ clients' = clients \cup {s}
        /\ inbox' = inbox @@
             (s :> << [event |-> "connection",
                       data |-> [message |-> "Connected to Living Art BFF",
                                 clientId |-> s],
                       cause |-> cause],
                      [event |-> "dashboard:update", data |-> [mode |-> currentMode],
                       cause |-> cause] >>)

\* the body of the 'connection' handler: the socket is OPEN when the event is
\* emitted; it is given its id, marked alive, added to the set and welcomed
onConnection ==
    LET s == Cardinality(DOMAIN sockets) + 1
    IN  /\ sockets' = sockets @@ (s :> [readyState |-> "OPEN", isAlive |-> TRUE])
        /\ clients' = clients \cup {s}
        /\ inbox' = inbox @@
             (s :> << [event |-> "connection",
                       data |-> [message |-> "Connected to Living Art BFF",
                                 clientId |-> s],
                       cause |-> AcceptCause(s)] >>)

\* wss.on('connection'): register the socket and send the welcome message
Connect ==
    /\ phase = "listening"
    /\ Event
    /\ onConnection
    /\ UNCHANGED <<phase, schedVars, cycles, nextCycle, reqs, nextReq, lastResponse,
                   upstream, timeVars>>
    /\ UNCHANGED <<sourceVars, healthVars>>

\* the peer starts the closing handshake: the socket leaves OPEN before its
\* 'close' event is emitted
ClientClosing(s) ==
    /\ s \in DOMAIN sockets
    /\ Event
    /\ sockets[s].readyState = "OPEN"
    /\ sockets' = [sockets EXCEPT ![s].readyState = "CLOSING"]
    /\ UNCHANGED <<phase, schedVars, cycles, nextCycle, reqs, nextReq, lastResponse,
                   clients, inbox, upstream, timeVars>>
    /\ UNCHANGED <<sourceVars, healthVars>>

\* ws.on('close')
CloseEvent(s) ==
    /\ s \in DOMAIN sockets
    /\ Event
    /\ sockets[s].readyState # "CLOSED"
    /\ sockets' = [sockets EXCEPT ![s].readyState = "CLOSED"]
    /\ clients' = clients \ {s}
    /\ UNCHANGED <<phase, schedVars, cycles, nextCycle, reqs, nextReq, lastResponse,
                   inbox, upstream, timeVars>>
    /\ UNCHANGED <<sourceVars, healthVars>>

\* clients after shutdown(): every client is sent a close frame, the set is cleared
shutdown ==
    /\ sockets' = [s \in DOMAIN sockets |->
                     IF s \in clients /\ sockets[s].readyState = "OPEN"
                     THEN [sockets[s] EXCEPT !.readyState = "CLOSING"]
                     ELSE sockets[s]]
    /\ clients' = {}
    /\ inbox' = inbox

(***************************************************************************)
(* scheduler.js                                                            *)
(***************************************************************************)
refreshDashboardData_personal(mode, origin, req) ==
    /\ cycles' = cycles \cup
                   {[id |-> nextCycle, mode |-> "personal", origin |-> origin,
                     req |-> req]}
    /\ nextCycle' = nextCycle + 1

\* refreshDashboardData up to its await: getDashboardData(currentMode) is
\* called with the mode of that moment. origin and req tell who started it.
refreshDashboardData(mode, origin, req) ==
    /\ cycles' = cycles \cup
                   {[id |-> nextCycle, mode |-> mode, origin |-> origin, req |-> req]}
    /\ nextCycle' = nextCycle + 1

startScheduler_lazy ==
    LET t == Cardinality(DOMAIN tasks) + 1
    IN  /\ tasks' = tasks @@ (t :> "running")
        /\ scheduledTask' = t
        /\ UNCHANGED <<currentMode, cycles, nextCycle>>

\* cron.schedule(..., {scheduled: true}) and the immediate first cycle
startScheduler ==
    LET t == Cardinality(DOMAIN tasks) + 1
    IN  /\ tasks' = tasks @@ (t :> "running")
        /\ scheduledTask' = t
        /\ currentMode' = currentMode
        /\ refreshDashboardData(currentMode, "start", 0)

stopScheduler_forgets ==
    UNCHANGED <<tasks, scheduledTask, currentMode>>

stopScheduler ==
    /\ tasks' = IF scheduledTask # 0
                THEN [tasks EXCEPT ![scheduledTask] = "stopped"]
                ELSE tasks
    /\ UNCHANGED <<scheduledTask, currentMode>>

setMode(mode, req) ==
    /\ currentMode' = mode
    /\ UNCHANGED <<scheduledTask, tasks>>
    /\ refreshDashboardData(mode, "setMode", req)

triggerRefresh(req) ==
    /\ UNCHANGED schedVars
    /\ refreshDashboardData(currentMode, "trigger", req)

\* a running cron task fires
Tick(t) ==
    /\ t \in DOMAIN tasks
    /\ tasks[t] = "running"
    /\ Event
    /\ refreshDashboardData(currentMode, "tick", 0)
    /\ UNCHANGED <<phase, schedVars, reqs, nextReq, lastResponse, connVars, upstream,
                   timeVars>>
    /\ UNCHANGED <<sourceVars, healthVars>>

\* a request suspended at `await scheduler.triggerRefresh()` resumes when its
\* cycle settles, and calls getDashboardData(mode) for its own response
ResumeAfter(c) ==
    [r \in reqs |-> IF r.id = c.req /\ r.phase = "awaitCycle"
                    THEN [r EXCEPT !.phase = "aggregating"] ELSE r]

ReqsAfter(c) == {ResumeAfter(c)[r] : r \in reqs}

CycleCause(c) ==
    [by |-> "cycle", id |-> c.id, origin |-> c.origin, req |-> c.req, mode |-> c.mode]

\* getDashboardData resolved: the rest of the try block of refreshDashboardData
CycleSucceeds(c) ==
    /\ c \in cycles
    /\ inbox' \in
         {broadcast("dashboard:update",
                    sendDashboardUpdate(getDashboardData(c.mode, upstream, quote)),
                    CycleCause(c)) : quote \in QuoteDraws(c.mode)}
    /\ cycles' = cycles \ {c}
    /\ reqs' = ReqsAfter(c)
    /\ UNCHANGED <<phase, schedVars, nextCycle, nextReq, lastResponse, clients, sockets,
                   events, upstream, timeVars>>
    /\ UNCHANGED <<sourceVars, healthVars>>

(***************************************************************************)
(* server.js                                                               *)
(***************************************************************************)
RouteCause(r) ==
    [by |-> "route", id |-> 0, origin |-> "route", req |-> r.id, mode |-> r.mode]

Respond(id, response) == lastResponse' = [response EXCEPT !.id = id]

\* server.listen's callback
Listen ==
    /\ phase = "boot"
    /\ phase' = "listening"
    /\ startScheduler
    /\ UNCHANGED <<reqs, nextReq, lastResponse, connVars, events, upstream, timeVars>>
    /\ UNCHANGED <<sourceVars, healthVars>>

\* POST /api/dashboard/mode, rejected before the scheduler is touched
PostModeRejected(mode) ==
    /\ phase # "boot"
    /\ Event
    /\ mode = NoMode \/ ~isValidMode(mode)
    /\ Respond(nextReq, [id |-> 0, kind |-> "mode", reqMode |-> mode, view |-> currentMode,
                         status |-> 400,
                         error |-> IF mode = NoMode THEN "Missing mode"
                                   ELSE "Invalid mode"])
    /\ nextReq' = nextReq + 1
    /\ UNCHANGED <<phase, schedVars, cycles, nextCycle, reqs, connVars, upstream,
                   timeVars>>
    /\ UNCHANGED <<sourceVars, healthVars>>

\* POST /api/dashboard/mode up to `await getDashboardData(mode)`
PostMode(mode) ==
    /\ phase # "boot"
    /\ Event
    /\ mode # NoMode /\ isValidMode(mode)
    /\ setMode(mode, nextReq)
    /\ reqs' = reqs \cup {[id |-> nextReq, kind |-> "mode", reqMode |-> mode,
                           mode |-> mode, view |-> currentMode,
                           openAt |-> Receivers, phase |-> "aggregating"]}
    /\ nextReq' = nextReq + 1
    /\ UNCHANGED <<phase, lastResponse, connVars, upstream, timeVars>>
    /\ UNCHANGED <<sourceVars, healthVars>>

\* POST /api/dashboard/mode from the await on: broadcast, then answer
PostModeDone(r) ==
    /\ r \in reqs
    /\ r.kind = "mode" /\ r.phase = "aggregating"
    /\ inbox' \in
         {broadcast("dashboard:update",
                    sendDashboardUpdate(getDashboardData(r.mode, upstream, quote)),
                    RouteCause(r)) : quote \in QuoteDraws(r.mode)}
    /\ Respond(r.id, [id |-> 0, kind |-> "mode", reqMode |-> r.reqMode, view |-> r.view,
                      openAt |-> r.openAt, status |-> 200, mode |-> r.mode])
    /\ reqs' = reqs \ {r}
    /\ UNCHANGED <<phase, schedVars, cycles, nextCycle, nextReq, clients, sockets,
                   events, upstream, timeVars>>
    /\ UNCHANGED <<sourceVars, healthVars>>

dataRouteMode_coerce(queryMode) ==
    IF queryMode \in getAvailableModes THEN queryMode ELSE "personal"

\* GET /api/dashboard/data: const mode = req.query.mode || 'personal'
dataRouteMode(queryMode) == IF queryMode = NoMode THEN "personal" ELSE queryMode

GetDataRejected(queryMode) ==
    /\ phase # "boot"
    /\ Event
    /\ ~isValidMode(dataRouteMode(queryMode))
    /\ Respond(nextReq, [id |-> 0, kind |-> "data", reqMode |-> queryMode, view |-> currentMode,
                         status |-> 400, error |-> "Invalid mode"])
    /\ nextReq' = nextReq + 1
    /\ UNCHANGED <<phase, schedVars, cycles, nextCycle, reqs, connVars, upstream,
                   timeVars>>
    /\ UNCHANGED <<sourceVars, healthVars>>

GetData_setsMode(queryMode) ==
    /\ phase # "boot"
    /\ Event
    /\ isValidMode(dataRouteMode(queryMode))
    /\ setMode(dataRouteMode(queryMode), nextReq)
    /\ reqs' = reqs \cup {[id |-> nextReq, kind |-> "data", reqMode |-> queryMode,
                           mode |-> dataRouteMode(queryMode), view |-> currentMode,
                           openAt |-> Receivers, phase |-> "aggregating"]}
    /\ nextReq' = nextReq + 1
    /\ UNCHANGED <<phase, lastResponse, connVars, upstream, timeVars>>
    /\ UNCHANGED <<sourceVars, healthVars>>

\* GET /api/dashboard/data up to `await getDashboardData(mode)`
GetData(queryMode) ==
    /\ phase # "boot"
    /\ Event
    /\ isValidMode(dataRouteMode(queryMode))
    /\ reqs' = reqs \cup {[id |-> nextReq, kind |-> "data", reqMode |-> queryMode,
                           mode |-> dataRouteMode(queryMode), view |-> currentMode,
                           openAt |-> Receivers, phase |-> "aggregating"]}
    /\ nextReq' = nextReq + 1
    /\ UNCHANGED <<phase, schedVars, cycles, nextCycle, lastResponse, connVars, upstream,
                   timeVars>>
    /\ UNCHANGED <<sourceVars, healthVars>>

GetDataDone(r) ==
    /\ r \in reqs
    /\ r.kind = "data" /\ r.phase = "aggregating"
    /\ \E quote \in QuoteDraws(r.mode) :
         Respond(r.id, [id |-> 0, kind |-> "data", reqMode |-> r.reqMode,
                        view |-> r.view, status |-> 200,
                        data |-> getDashboardData(r.mode, upstream, quote)])
    /\ reqs' = reqs \ {r}
    /\ UNCHANGED <<phase, schedVars, cycles, nextCycle, nextReq, connVars, events,
                   upstream, timeVars>>
    /\ UNCHANGED <<sourceVars, healthVars>>

\* GET /api/dashboard/refresh: const mode = req.query.mode || scheduler.getMode()
refreshRouteMode(queryMode) == IF queryMode = NoMode THEN currentMode ELSE queryMode

\* GET /api/dashboard/refresh up to `await scheduler.triggerRefresh()`
GetRefresh(queryMode) ==
    /\ phase # "boot"
    /\ Event
    /\ triggerRefresh(nextReq)
    /\ reqs' = reqs \cup {[id |-> nextReq, kind |-> "refresh", reqMode |-> queryMode,
                           mode |-> refreshRouteMode(queryMode), view |-> currentMode,
                           openAt |-> Receivers, phase |-> "awaitCycle"]}
    /\ nextReq' = nextReq + 1
    /\ UNCHANGED <<phase, lastResponse, connVars, upstream, timeVars>>
    /\ UNCHANGED <<sourceVars, healthVars>>

\* GET /api/dashboard/refresh from `await getDashboardData(mode)` on
GetRefreshDone(r) ==
    /\ r \in reqs
    /\ r.kind = "refresh" /\ r.phase = "aggregating"
    /\ \E quote \in QuoteDraws(r.mode) :
         Respond(r.id, [id |-> 0, kind |-> "refresh", reqMode |-> r.reqMode,
                        view |-> r.view, status |-> 200,
                        data |-> getDashboardData(r.mode, upstream, quote)])
    /\ reqs' = reqs \ {r}
    /\ UNCHANGED <<phase, schedVars, cycles, nextCycle, nextReq, connVars, events,
                   upstream, timeVars>>
    /\ UNCHANGED <<sourceVars, healthVars>>

\* process.on('SIGTERM'): stopScheduler, wsHandler.shutdown, server.close.
\* The closed server accepts no new connection, so no new socket; it still
\* serves requests that arrive on connections kept alive, and handlers that
\* are suspended at an await still resume.
Sigterm ==
    /\ phase = "listening"
    /\ phase' = "terminated"
    /\ stopScheduler
    /\ shutdown
    /\ UNCHANGED <<cycles, nextCycle, reqs, nextReq, lastResponse, events, upstream,
                   timeVars>>
    /\ UNCHANGED <<sourceVars, healthVars>>

\* the sources are configured when they answer; nothing has called the
\* weather cache, the aggregator's sources or the health check yet
InitIdle ==
    /\ env = [weather |-> upstream.weather # DefaultWeather,
              calendar |-> upstream.calendar # NoCalendar,
              todoist |-> upstream.todos # getMockTodos]
    /\ nowMs = 1
    /\ cachedWeather = Null
    /\ cacheTimestamp = 0
    /\ gets = <<>>
    /\ aggs = <<>>
    /\ probes = <<>>
    /\ healthTicks = 0
    /\ writeErrors = {}

(***************************************************************************)
(* The server as server.js runs it.                                        *)
(***************************************************************************)
Init ==
    /\ phase = "boot"
    /\ currentMode = "personal"
    /\ scheduledTask = 0
    /\ tasks = <<>>
    /\ cycles = {}
    /\ nextCycle = 1
    /\ reqs = {}
    /\ nextReq = 1
    /\ lastResponse = Null
    /\ clients = {}
    /\ sockets = <<>>
    /\ inbox = <<>>
    /\ events = 0
    /\ upstream \in Upstream
    /\ clock = 0
    /\ envInterval = 0
    /\ tickTimes = <<>>
    /\ InitIdle

Next ==
    \/ Listen
    \/ Connect
    \/ \E s \in DOMAIN sockets : CloseEvent(s)
    \/ \E t \in DOMAIN tasks : Tick(t)
    \/ \E c \in cycles : CycleSucceeds(c)
    \/ \E m \in PostModes : PostModeRejected(m)
    \/ \E m \in PostModes : PostMode(m)
    \/ \E r \in reqs : PostModeDone(r)
    \/ \E m \in DataModes : GetDataRejected(m)
    \/ \E m \in DataModes : GetData(m)
    \/ \E r \in reqs : GetDataDone(r)
    \/ \E m \in RefreshModes : GetRefresh(m)
    \/ \E r \in reqs : GetRefreshDone(r)
    \/ Sigterm

Spec == Init /\ [][Next]_vars

(***************************************************************************)
(* The server when an aggregation can throw.  Every source contains its    *)
(* own failure, so this is an exception from inside getDashboardData that  *)
(* none of them caught: its catch block rethrows it.                       *)
(***************************************************************************)
refreshFailed_silent(c) ==
    /\ inbox' = inbox
    /\ UNCHANGED schedVars

\* the catch block of refreshDashboardData
refreshFailed(c) ==
    /\ inbox' = broadcast("error",
                          [message |-> "Failed to refresh dashboard data",
                           error |-> "error.message"],
                          [CycleCause(c) EXCEPT !.by = "cycle failed"])
    /\ UNCHANGED schedVars

\* getDashboardData rejected inside refreshDashboardData
CycleFails(c) ==
    /\ c \in cycles
    /\ refreshFailed(c)
    /\ cycles' = cycles \ {c}
    /\ reqs' = ReqsAfter(c)
    /\ UNCHANGED <<phase, nextCycle, nextReq, lastResponse, clients, sockets, events,
                   upstream, timeVars>>
    /\ UNCHANGED <<sourceVars, healthVars>>

\* getDashboardData rejected inside a route: next(error), answered with 500
RouteFails(r) ==
    /\ r \in reqs
    /\ r.phase = "aggregating"
    /\ Respond(r.id, [id |-> 0, kind |-> r.kind, reqMode |-> r.reqMode, view |-> r.view,
                      status |-> 500, error |-> "Internal Server Error"])
    /\ reqs' = reqs \ {r}
    /\ UNCHANGED <<phase, schedVars, cycles, nextCycle, nextReq, connVars, events,
                   upstream, timeVars>>
    /\ UNCHANGED <<sourceVars, healthVars>>

\* the requests made while aggregations may fail: the two routes that start
\* a refresh cycle
FaultPostModes == {"guest", "briefing"}
FaultRefreshModes == {NoMode}

NextFault ==
    \/ Listen
    \/ Connect
    \/ \E s \in DOMAIN sockets : CloseEvent(s)
    \/ \E t \in DOMAIN tasks : Tick(t)
    \/ \E c \in cycles : CycleSucceeds(c)
    \/ \E c \in cycles : CycleFails(c)
    \/ \E mode \in FaultPostModes : PostMode(mode)
    \/ \E r \in reqs : PostModeDone(r)
    \/ \E queryMode \in FaultRefreshModes : GetRefresh(queryMode)
    \/ \E r \in reqs : GetRefreshDone(r)
    \/ \E r \in reqs : RouteFails(r)
    \/ Sigterm

SpecFault == Init /\ [][NextFault]_vars

(***************************************************************************)
(* scheduler.js driven through its exports, in any order, with one client  *)
(* connected from the start.                                               *)
(***************************************************************************)
\* the modes a caller hands to setMode, which checks nothing
SetModeArgs == getAvailableModes \cup {"bogus"}

StartSchedulerCall ==
    /\ Event
    /\ startScheduler
    /\ UNCHANGED <<phase, reqs, nextReq, lastResponse, connVars, upstream, timeVars>>
    /\ UNCHANGED <<sourceVars, healthVars>>

StopSchedulerCall ==
    /\ Event
    /\ stopScheduler
    /\ UNCHANGED <<phase, cycles, nextCycle, reqs, nextReq, lastResponse, connVars,
                   upstream, timeVars>>
    /\ UNCHANGED <<sourceVars, healthVars>>

SetModeCall(mode) ==
    /\ Event
    /\ setMode(mode, 0)
    /\ UNCHANGED <<phase, reqs, nextReq, lastResponse, connVars, upstream, timeVars>>
    /\ UNCHANGED <<sourceVars, healthVars>>

TriggerRefreshCall ==
    /\ Event
    /\ triggerRefresh(0)
    /\ UNCHANGED <<phase, reqs, nextReq, lastResponse, connVars, upstream, timeVars>>
    /\ UNCHANGED <<sourceVars, healthVars>>

InitModule ==
    /\ phase = "listening"
    /\ currentMode = "personal"
    /\ scheduledTask = 0
    /\ tasks = <<>>
    /\ cycles = {}
    /\ nextCycle = 1
    /\ reqs = {}
    /\ nextReq = 1
    /\ lastResponse = Null
    /\ clients = {1}
    /\ sockets = <<[readyState |-> "OPEN", isAlive |-> TRUE]>>
    /\ inbox = << << [event |-> "connection",
                      data |-> [message |-> "Connected to Living Art BFF",
                                clientId |-> 1],
                      cause |-> AcceptCause(1)] >> >>
    /\ events = 0
    /\ upstream \in Upstream
    /\ clock = 0
    /\ envInterval = 0
    /\ tickTimes = <<>>
    /\ InitIdle

NextModule ==
    \/ StartSchedulerCall
    \/ StopSchedulerCall
    \/ \E m \in SetModeArgs : SetModeCall(m)
    \/ TriggerRefreshCall
    \/ \E t \in DOMAIN tasks : Tick(t)
    \/ \E c \in cycles : CycleSucceeds(c)
    \/ Connect
    \/ \E s \in DOMAIN sockets : CloseEvent(s)

SpecModule == InitModule /\ [][NextModule]_vars

(***************************************************************************)
(* The cron task against the wall clock.                                   *)
(***************************************************************************)
\* const REFRESH_INTERVAL = parseInt(process.env.REFRESH_INTERVAL) || 30
REFRESH_INTERVAL == IF envInterval = 0 THEN 30 ELSE envInterval

\* "*/N * * * * *" for N < 60, else "*/M * * * *" with M = floor(N / 60)
getCronExpression(seconds) ==
    IF seconds < 60
    THEN [fields |-> 6, step |-> seconds]
    ELSE [fields |-> 5, step |-> seconds \div 60]

\* whether the expression fires at wall-clock second t: a step */k of a field
\* matches the values of the field's range 0..59 that are multiples of k; a
\* five-field expression has no seconds field and fires at second 0
CronMatches(expr, t) ==
    IF expr.fields = 6
    THEN (t % 60) % expr.step = 0
    ELSE t % 60 = 0 /\ ((t \div 60) % 60) % expr.step = 0

\* the scheduled task is due at second t
Due(t) ==
    /\ scheduledTask # 0
    /\ tasks[scheduledTask] = "running"
    /\ CronMatches(getCronExpression(REFRESH_INTERVAL), t)

\* a second passes in which the task is not due
TimePasses ==
    /\ phase = "listening"
    /\ clock < MaxClock
    /\ ~Due(clock + 1)
    /\ clock' = clock + 1
    /\ UNCHANGED <<phase, schedVars, cycles, nextCycle, reqs, nextReq, lastResponse,
                   connVars, events, upstream, envInterval, tickTimes>>
    /\ UNCHANGED <<sourceVars, healthVars>>

\* a second passes and the task fires: cron calls refreshDashboardData
CronTick ==
    /\ phase = "listening"
    /\ clock < MaxClock
    /\ Cardinality(cycles) < MaxInFlight
    /\ Due(clock + 1)
    /\ clock' = clock + 1
    /\ tickTimes' = <<clock + 1>> \o SubSeq(tickTimes, 1, IF tickTimes = <<>> THEN 0 ELSE 1)
    /\ refreshDashboardData(currentMode, "tick", 0)
    /\ UNCHANGED <<phase, schedVars, reqs, nextReq, lastResponse, connVars, events,
                   upstream, envInterval>>
    /\ UNCHANGED <<sourceVars, healthVars>>

InitCron ==
    /\ phase = "boot"
    /\ currentMode = "personal"
    /\ scheduledTask = 0
    /\ tasks = <<>>
    /\ cycles = {}
    /\ nextCycle = 1
    /\ reqs = {}
    /\ nextReq = 1
    /\ lastResponse = Null
    /\ clients = {}
    /\ sockets = <<>>
    /\ inbox = <<>>
    /\ events = 0
    /\ upstream \in Upstream
    /\ clock = 0
    /\ envInterval \in 0..MaxInterval
    /\ tickTimes = <<>>
    /\ InitIdle

NextCron ==
    \/ Listen
    \/ TimePasses
    \/ CronTick
    \/ \E c \in cycles : CycleSucceeds(c)

SpecCron == InitCron /\ [][NextCron]_vars

(***************************************************************************)
(* weatherAggregator.js: the weather cache, called by any number of        *)
(* callers at once.  A call is one record of gets:                         *)
(*   owner   the aggregation that made the call (0: a direct call)         *)
(*   at      Date.now() at the call, age: the age of the stored value then *)
(*   fetch   "none" | "pending" | "ok" | "failed": its live fetch          *)
(*   ret     the value returned, retAt / retAge: when, and how old it was  *)
(*   order   its position among the calls in the order they returned       *)
(*   seen    how many calls had returned when it was made                  *)
(***************************************************************************)
CACHE_DURATION == 10 * 60 * 1000

\* axios.get(..., {timeout: 5000}) in getCurrentWeather and getTasks
FETCH_TIMEOUT == 5000

\* the time that passes in one step while no weather fetch is in flight
Elapse == {CACHE_DURATION - 1, CACHE_DURATION}

\* weatherData as getWeather formats the reading that fetch k received
Reading(k) == [LiveWeather EXCEPT !.temp = 60 + k]

cacheValid_never == FALSE

cacheValid_late ==
    /\ cachedWeather # Null
    /\ cacheTimestamp # 0
    /\ nowMs - cacheTimestamp <= CACHE_DURATION

\* cachedWeather && cacheTimestamp && (Date.now() - cacheTimestamp < CACHE_DURATION)
cacheValid ==
    /\ cachedWeather # Null
    /\ cacheTimestamp # 0
    /\ nowMs - cacheTimestamp < CACHE_DURATION

\* getCacheStatus().cacheAge, with -1 for null
cacheAge == IF cacheTimestamp = 0 THEN -1 ELSE nowMs - cacheTimestamp

\* the calls that have returned
Returned == {j \in DOMAIN gets : gets[j].fetch # "pending"}

Pending == DOMAIN gets \ Returned

\* getWeather() from its call to its return or to its await of the live fetch
getWeather(owner) ==
    LET call == [owner |-> owner, at |-> nowMs, age |-> cacheAge, fetch |-> "none",
                 ret |-> cachedWeather, retAt |-> nowMs, retAge |-> cacheAge,
                 order |-> Cardinality(Returned) + 1, seen |-> Cardinality(Returned)]
    IN  gets' = Append(gets,
                  IF cacheValid THEN call
                  ELSE IF ~env.weather THEN call
                  ELSE [call EXCEPT !.fetch = "pending", !.ret = Null, !.retAt = 0,
                                    !.retAge = -1, !.order = 0])

storeWeather_ifEmpty(weatherData) ==
    IF cachedWeather = Null
    THEN cachedWeather' = weatherData /\ cacheTimestamp' = nowMs
    ELSE UNCHANGED <<cachedWeather, cacheTimestamp>>

\* cachedWeather = weatherData; cacheTimestamp = Date.now()
storeWeather(weatherData) ==
    /\ cachedWeather' = weatherData
    /\ cacheTimestamp' = nowMs

staleFallback_null == Null

\* the catch block: cachedWeather if there is one, else null
staleFallback == IF cachedWeather # Null THEN cachedWeather ELSE Null

\* a direct call of the exported getWeather
GetWeatherCall ==
    /\ Len(gets) < MaxGets
    /\ getWeather(0)
    /\ UNCHANGED <<phase, schedVars, cycles, nextCycle, reqs, nextReq, lastResponse,
                   connVars, events, upstream, timeVars, env, nowMs, cachedWeather,
                   cacheTimestamp, aggs, healthVars>>

\* getCurrentWeather resolved: the rest of the try block
FetchResolves(j) ==
    /\ j \in Pending
    /\ storeWeather(Reading(j))
    /\ gets' = [gets EXCEPT ![j] = [@ EXCEPT !.fetch = "ok", !.ret = Reading(j),
                                             !.retAt = nowMs, !.retAge = 0,
                                             !.order = Cardinality(Returned) + 1]]
    /\ UNCHANGED <<phase, schedVars, cycles, nextCycle, reqs, nextReq, lastResponse,
                   connVars, events, upstream, timeVars, env, nowMs, aggs, healthVars>>

FetchRejects_renews(j) ==
    /\ j \in DOMAIN gets
    /\ gets[j].fetch = "pending"
    /\ gets' = [gets EXCEPT ![j] = [@ EXCEPT !.fetch = "failed", !.ret = cachedWeather,
                                             !.retAt = nowMs,
                                             !.retAge = IF cacheTimestamp = 0 THEN -1
                                                       ELSE nowMs - cacheTimestamp,
                                             !.order = Cardinality({k \in DOMAIN gets :
                                                          gets[k].fetch # "pending"}) + 1]]
    /\ cacheTimestamp' = IF cachedWeather # Null THEN nowMs ELSE cacheTimestamp
    /\ UNCHANGED <<phase, schedVars, cycles, nextCycle, reqs, nextReq, lastResponse,
                   connVars, events, upstream, timeVars, env, nowMs, cachedWeather,
                   aggs, healthVars>>

\* getCurrentWeather rejected (an error answer, the network, or its timeout)
FetchRejects(j) ==
    /\ j \in Pending
    /\ gets' = [gets EXCEPT ![j] = [@ EXCEPT !.fetch = "failed", !.ret = staleFallback,
                                             !.retAt = nowMs, !.retAge = cacheAge,
                                             !.order = Cardinality(Returned) + 1]]
    /\ UNCHANGED <<phase, schedVars, cycles, nextCycle, reqs, nextReq, lastResponse,
                   connVars, events, upstream, timeVars, env, nowMs, cachedWeather,
                   cacheTimestamp, aggs, healthVars>>

\* a fetch with a timeout is in flight: a weather fetch, or the Todoist fetch
\* of an aggregation
TimedPending ==
    \/ Pending # {}
    \/ \E a \in DOMAIN aggs : aggs[a].pc = "todos" /\ env.todoist

\* time passes: by a cache lifetime or one millisecond less while no fetch
\* with a timeout is in flight, by the fetch timeout at most while a weather
\* fetch is (a Todoist fetch settles before the clock of the model moves)
TimeElapses(d) ==
    /\ nowMs + d <= MaxNow
    /\ IF ~TimedPending
       THEN d \in Elapse
       ELSE /\ d = FETCH_TIMEOUT
            /\ \A j \in Pending : nowMs + d - gets[j].at <= FETCH_TIMEOUT
            /\ Pending # {}
    /\ nowMs' = nowMs + d
    /\ UNCHANGED <<phase, schedVars, cycles, nextCycle, reqs, nextReq, lastResponse,
                   connVars, events, upstream, timeVars, env, cachedWeather,
                   cacheTimestamp, gets, aggs, healthVars>>

NextCache ==
    \/ GetWeatherCall
    \/ \E j \in DOMAIN gets : FetchResolves(j)
    \/ \E j \in DOMAIN gets : FetchRejects(j)
    \/ \E d \in Elapse \cup {FETCH_TIMEOUT} : TimeElapses(d)

SpecCache == Init /\ [][NextCache]_vars

\* clearCache(), exported by the module
ClearCache ==
    /\ cachedWeather' = Null
    /\ cacheTimestamp' = 0
    /\ UNCHANGED <<phase, schedVars, cycles, nextCycle, reqs, nextReq, lastResponse,
                   connVars, events, upstream, timeVars, env, nowMs, gets, aggs,
                   healthVars>>

NextCacheClear ==
    \/ NextCache
    \/ ClearCache

SpecCacheClear == Init /\ [][NextCacheClear]_vars

(***************************************************************************)
(* aggregators/index.js, await by await.  An invocation of                 *)
(* getDashboardData is one record of aggs:                                 *)
(*   mode     its argument                                                 *)
(*   pc       the source it is awaiting: "weather" | "nextEvent" | "todos" *)
(*            | "agenda", or "done"                                        *)
(*   get      its call of getWeather                                       *)
(*   started  the sources it has called so far                             *)
(*   outcome  source -> how its call ended                                 *)
(*   data     fullData so far, result: what it resolved to (Null before)   *)
(***************************************************************************)
\* the sources in the order getDashboardData awaits them
Sources == <<"weather", "nextEvent", "todos", "agenda">>

\* the mode of the invocations followed await by await
AggModes == {"personal"}

getWeatherData_raw(weather) == weather

\* getWeatherData: the weather of getWeather, or the static fallback
getWeatherData(weather) == IF weather # Null THEN weather ELSE DefaultWeather

\* getCalendarData by how its fetch ended ("ok" | "failed" | "unconfigured")
getCalendarData(outcome) == IF outcome = "ok" THEN LiveCalendar ELSE NoCalendar

getNextEvent(outcome) == getCalendarData(outcome).nextEvent

getAgenda(outcome) == getCalendarData(outcome).agenda

\* todoAggregator getTodos by how its fetch ended
getTodos(outcome) == IF outcome = "ok" THEN LiveTodos ELSE getMockTodos

\* how the fetch of a source can end
Outcomes(configured) == IF configured THEN {"ok", "failed"} ELSE {"unconfigured"}

\* getDashboardData(mode) up to its first await: it calls getWeatherData.
\* The invocations are taken one after the other; getWeather is the only
\* state they share, and its overlapping calls are those of GetWeatherCall.
AggStart(mode) ==
    /\ Len(aggs) < MaxAggs
    /\ \A a \in DOMAIN aggs : aggs[a].pc = "done"
    /\ Len(gets) < MaxGets
    /\ getWeather(Len(aggs) + 1)
    /\ aggs' = Append(aggs, [mode |-> mode, pc |-> "weather", get |-> Len(gets) + 1,
                             started |-> {"weather"},
                             outcome |-> <<>>, data |-> [mode |-> mode],
                             result |-> Null])
    /\ UNCHANGED <<phase, schedVars, cycles, nextCycle, reqs, nextReq, lastResponse,
                   connVars, events, upstream, timeVars, env, nowMs, cachedWeather,
                   cacheTimestamp, healthVars>>

\* getWeatherData returned: the aggregation calls getNextEvent
AggAfterWeather(a) ==
    /\ a \in DOMAIN aggs
    /\ aggs[a].pc = "weather"
    /\ aggs[a].get \in Returned
    /\ aggs' = [aggs EXCEPT ![a] =
                  [@ EXCEPT !.pc = "nextEvent",
                            !.started = @ \cup {"nextEvent"},
                            !.outcome = @ @@ ("weather" :> gets[aggs[a].get].fetch),
                            !.data = @ @@ [weather |->
                                             getWeatherData(gets[aggs[a].get].ret)]]]
    /\ UNCHANGED <<phase, schedVars, cycles, nextCycle, reqs, nextReq, lastResponse,
                   connVars, events, upstream, timeVars, env, cacheVars, healthVars>>

\* getNextEvent returned: the aggregation calls getTodos
NextEventSettles(a, outcome) ==
    /\ a \in DOMAIN aggs
    /\ aggs[a].pc = "nextEvent"
    /\ outcome \in Outcomes(env.calendar)
    /\ aggs' = [aggs EXCEPT ![a] =
                  [@ EXCEPT !.pc = "todos",
                            !.started = @ \cup {"todos"},
                            !.outcome = @ @@ ("nextEvent" :> outcome),
                            !.data = @ @@ [nextEvent |-> getNextEvent(outcome)]]]
    /\ UNCHANGED <<phase, schedVars, cycles, nextCycle, reqs, nextReq, lastResponse,
                   connVars, events, upstream, timeVars, env, cacheVars, healthVars>>

\* getTodos returned: the aggregation calls getAgenda
TodosSettle(a, outcome) ==
    /\ a \in DOMAIN aggs
    /\ aggs[a].pc = "todos"
    /\ outcome \in Outcomes(env.todoist)
    /\ aggs' = [aggs EXCEPT ![a] =
                  [@ EXCEPT !.pc = "agenda",
                            !.started = @ \cup {"agenda"},
                            !.outcome = @ @@ ("todos" :> outcome),
                            !.data = @ @@ [todos |-> getTodos(outcome)]]]
    /\ UNCHANGED <<phase, schedVars, cycles, nextCycle, reqs, nextReq, lastResponse,
                   connVars, events, upstream, timeVars, env, cacheVars, healthVars>>

\* getAgenda returned: getLocalEvents and getLLMMessage answer at once, and
\* the aggregation resolves to the filtered data
AgendaSettles(a, outcome) ==
    /\ a \in DOMAIN aggs
    /\ aggs[a].pc = "agenda"
    /\ outcome \in Outcomes(env.calendar)
    /\ LET data == aggs[a].data @@ [agenda |-> getAgenda(outcome),
                                    localEvents |-> getLocalEvents,
                                    llmMessage |-> getLLMMessage]
       IN  aggs' \in
             {[aggs EXCEPT ![a] =
                 [@ EXCEPT !.pc = "done",
                           !.outcome = @ @@ ("agenda" :> outcome),
                           !.data = data,
                           !.result = filterByMode(aggs[a].mode, data, quote)]]
              : quote \in QuoteDraws(aggs[a].mode)}
    /\ UNCHANGED <<phase, schedVars, cycles, nextCycle, reqs, nextReq, lastResponse,
                   connVars, events, upstream, timeVars, env, cacheVars, healthVars>>

NextAggregate ==
    \/ \E mode \in AggModes : AggStart(mode)
    \/ \E j \in DOMAIN gets : FetchResolves(j)
    \/ \E j \in DOMAIN gets : FetchRejects(j)
    \/ \E a \in DOMAIN aggs : AggAfterWeather(a)
    \/ \E a \in DOMAIN aggs, o \in {"ok", "failed", "unconfigured"} : NextEventSettles(a, o)
    \/ \E a \in DOMAIN aggs, o \in {"ok", "failed", "unconfigured"} : TodosSettle(a, o)
    \/ \E a \in DOMAIN aggs, o \in {"ok", "failed", "unconfigured"} : AgendaSettles(a, o)
    \/ \E d \in Elapse : TimeElapses(d)

\* what Node and the clients guarantee: a continuation that can run does run;
\* the axios requests for the weather and for Todoist carry timeout: 5000 and
\* settle; a source that is not configured answers at once.  The Google
\* Calendar request (calendar.events.list) carries no timeout.
FairAggregate ==
    /\ WF_vars(\E j \in DOMAIN gets : FetchResolves(j) \/ FetchRejects(j))
    /\ WF_vars(\E a \in DOMAIN aggs : AggAfterWeather(a))
    /\ WF_vars(\E a \in DOMAIN aggs, o \in {"ok", "failed", "unconfigured"} :
                  TodosSettle(a, o))
    /\ WF_vars(\E a \in DOMAIN aggs : NextEventSettles(a, "unconfigured"))
    /\ WF_vars(\E a \in DOMAIN aggs : AgendaSettles(a, "unconfigured"))

SpecAggregate == Init /\ [][NextAggregate]_vars /\ FairAggregate

(***************************************************************************)
(* wsHandler.js: the life of a connection and the ping/pong health check.  *)
(***************************************************************************)
\* this.pingInterval: set by initialize() when the module is wired up,
\* cleared by shutdown()
pingInterval == phase # "terminated"

\* health checks socket s has met since it was accepted or last acknowledged
ProbesOf(s) == IF s \in DOMAIN probes THEN probes[s] ELSE 0

ErrorEvent_keeps(s) ==
    /\ s \in DOMAIN sockets
    /\ sockets' = [sockets EXCEPT ![s].readyState =
                      IF @ = "OPEN" THEN "CLOSING" ELSE @]
    /\ UNCHANGED <<phase, schedVars, cycles, nextCycle, reqs, nextReq, lastResponse,
                   clients, inbox, events, upstream, timeVars, sourceVars, healthVars>>

\* ws.on('error'): the ws library has left OPEN when it emits the event, and
\* closes the socket after it
ErrorEvent(s) ==
    /\ s \in DOMAIN sockets
    /\ sockets' = [sockets EXCEPT ![s].readyState =
                      IF @ = "OPEN" THEN "CLOSING" ELSE @]
    /\ clients' = clients \ {s}
    /\ writeErrors' = writeErrors \ {s}
    /\ UNCHANGED <<phase, schedVars, cycles, nextCycle, reqs, nextReq, lastResponse,
                   inbox, events, upstream, timeVars, sourceVars, probes, healthTicks>>

\* ws.on('pong'): the peer answers the ping it was sent
Pong(s) ==
    /\ s \in DOMAIN sockets
    /\ sockets[s].readyState = "OPEN"
    /\ ~sockets[s].isAlive
    /\ sockets' = [sockets EXCEPT ![s].isAlive = TRUE]
    /\ probes' = [probes EXCEPT ![s] = 0]
    /\ UNCHANGED <<phase, schedVars, cycles, nextCycle, reqs, nextReq, lastResponse,
                   clients, inbox, events, upstream, timeVars, sourceVars, healthTicks,
                   writeErrors>>

HealthTick_pingOnly ==
    /\ pingInterval
    /\ healthTicks < MaxHealthTicks
    /\ healthTicks' = healthTicks + 1
    /\ sockets' = [s \in DOMAIN sockets |->
                     IF s \in clients THEN [sockets[s] EXCEPT !.isAlive = FALSE]
                     ELSE sockets[s]]
    /\ probes' = [s \in clients |-> ProbesOf(s) + 1] @@ probes
    /\ UNCHANGED <<phase, schedVars, cycles, nextCycle, reqs, nextReq, lastResponse,
                   clients, inbox, events, upstream, timeVars, sourceVars, writeErrors>>

\* the setInterval callback of startHealthCheck: a client that has not
\* answered the last ping is deleted and terminated, every other client is
\* marked and pinged
HealthTick ==
    /\ pingInterval
    /\ healthTicks < MaxHealthTicks
    /\ healthTicks' = healthTicks + 1
    /\ LET dead == {s \in clients : ~sockets[s].isAlive}
       IN  /\ clients' = clients \ dead
           /\ sockets' = [s \in DOMAIN sockets |->
                            IF s \in dead
                            THEN [sockets[s] EXCEPT !.readyState =
                                     IF @ = "CLOSED" THEN "CLOSED" ELSE "CLOSING"]
                            ELSE IF s \in clients
                                 THEN [sockets[s] EXCEPT !.isAlive = FALSE]
                                 ELSE sockets[s]]
    /\ probes' = [s \in clients |-> ProbesOf(s) + 1] @@ probes
    /\ UNCHANGED <<phase, schedVars, cycles, nextCycle, reqs, nextReq, lastResponse,
                   inbox, events, upstream, timeVars, sourceVars, writeErrors>>

NextConn ==
    \/ Listen
    \/ Connect
    \/ \E s \in DOMAIN sockets : ClientClosing(s)
    \/ \E s \in DOMAIN sockets : ErrorEvent(s)
    \/ \E s \in DOMAIN sockets : CloseEvent(s)
    \/ \E s \in DOMAIN sockets : Pong(s)
    \/ HealthTick
    \/ Sigterm

SpecConn == Init /\ [][NextConn]_vars

(***************************************************************************)
(* wsHandler.js: inbound messages, broadcasts whose writes fail, and the   *)
(* connections that arrive after shutdown().                               *)
(***************************************************************************)
\* the payloads a client sends: a liveness probe, another object, an array,
\* the JSON value null, and text that is not JSON
RawMessages == {"{\"type\":\"ping\"}", "{\"type\":\"mode\"}", "[]", "null", "{type:ping"}

\* JSON.parse(message) throws a SyntaxError on text that is not JSON
SyntaxError == [json |-> "SyntaxError"]

JSONparse(raw) ==
    CASE raw = "{\"type\":\"ping\"}" -> [json |-> "object", type |-> "ping"]
      [] raw = "{\"type\":\"mode\"}" -> [json |-> "object", type |-> "mode"]
      [] raw = "[]" -> [json |-> "array"]
      [] raw = "null" -> [json |-> "null"]
      [] OTHER -> SyntaxError

\* data.type throws a TypeError when data is null
TypeThrows(data) == data.json = "null"

\* data.type, "" for undefined
TypeOf(data) == IF "type" \in DOMAIN data THEN data.type ELSE ""

\* the payload handleMessage passes to sendToSocket: both the SyntaxError of
\* JSON.parse and the TypeError of data.type land in its one catch block
handleMessage(raw) ==
    LET data == JSONparse(raw)
    IN  IF data = SyntaxError \/ TypeThrows(data)
        THEN [event |-> "error", data |-> [message |-> "Invalid message format"]]
        ELSE IF TypeOf(data) = "ping"
             THEN [event |-> "pong", data |-> [timestamp |-> "now"]]
             ELSE [event |-> "echo", data |-> data]

MessageCause(s, raw) ==
    [by |-> "message", id |-> s, origin |-> raw, req |-> 0, mode |-> ""]

\* inbox after the messages msg is written to the sockets of to
deliver(box, to, msg) ==
    [s \in DOMAIN box |-> IF s \in to THEN Append(box[s], msg) ELSE box[s]]

sendToSocket_everyone(s, payload, cause) ==
    deliver(inbox, Receivers, [event |-> payload.event, data |-> payload.data,
                               cause |-> cause])

sendToSocket_unguarded(s, payload, cause) ==
    [t \in DOMAIN inbox |->
        IF t = s
        THEN Append(inbox[t], [event |-> payload.event, data |-> payload.data,
                               cause |-> cause])
        ELSE inbox[t]]

\* inbox after sendToSocket(ws, payload)
sendToSocket(s, payload, cause) ==
    IF sockets[s].readyState = "OPEN"
    THEN deliver(inbox, {s}, [event |-> payload.event, data |-> payload.data,
                              cause |-> cause])
    ELSE inbox

\* the replies handleMessage has sent so far
Replies ==
    UNION {{<<s, i>> : i \in {j \in DOMAIN inbox[s] : inbox[s][j].cause.by = "message"}} :
             s \in DOMAIN inbox}

Message_marksAlive(s, raw) ==
    /\ s \in DOMAIN sockets
    /\ sockets[s].readyState = "OPEN"
    /\ Cardinality(Replies) < MaxMessages
    /\ inbox' = sendToSocket(s, handleMessage(raw), MessageCause(s, raw))
    /\ sockets' = [sockets EXCEPT ![s].isAlive = TRUE]
    /\ UNCHANGED <<phase, schedVars, cycles, nextCycle, reqs, nextReq, lastResponse,
                   clients, events, upstream, timeVars, sourceVars, healthVars>>

\* ws.on('message'): the receive loop of an open socket hands a payload over
Message(s, raw) ==
    /\ s \in DOMAIN sockets
    /\ sockets[s].readyState = "OPEN"
    /\ Cardinality(Replies) < MaxMessages
    /\ inbox' = sendToSocket(s, handleMessage(raw), MessageCause(s, raw))
    /\ UNCHANGED <<phase, schedVars, cycles, nextCycle, reqs, nextReq, lastResponse,
                   clients, sockets, events, upstream, timeVars, sourceVars,
                   healthVars>>

\* the 'connection' event of an upgrade request that arrives on a kept-alive
\* connection after SIGTERM: server.close() leaves those connections open and
\* the WebSocketServer is never closed
LateConnect ==
    /\ phase = "terminated"
    /\ Event
    /\ onConnection
    /\ UNCHANGED <<phase, schedVars, cycles, nextCycle, reqs, nextReq, lastResponse,
                   upstream, timeVars>>
    /\ UNCHANGED <<sourceVars, healthVars>>

\* how client.send(message) can fail: the write fails and the socket emits
\* 'error' later, or send() itself throws
SendFailures == {"event", "throw"}

\* the clients forEach has visited before it reaches f (a Set iterates in
\* insertion order)
Before(f) == {s \in clients : s < f}

UpdateMsg(c, quote) ==
    [event |-> "dashboard:update",
     data |-> sendDashboardUpdate(getDashboardData(c.mode, upstream, quote)),
     cause |-> CycleCause(c)]

ErrorMsg(c) ==
    [event |-> "error",
     data |-> [message |-> "Failed to refresh dashboard data", error |-> "send"],
     cause |-> CycleCause(c)]

\* getDashboardData resolved and the write to f fails inside broadcast.
\*   "event": the remaining clients are written to, f's 'error' event is due;
\*   "throw": the exception leaves forEach and broadcast, and the catch block
\*            of refreshDashboardData broadcasts the error event, where the
\*            send to f throws again or not.
CycleSendFails(c, f, how, again) ==
    /\ c \in cycles
    /\ f \in Receivers
    /\ how \in SendFailures
    /\ how = "event" => ~again
    /\ \E quote \in QuoteDraws(c.mode) :
         IF how = "event"
         THEN /\ inbox' = deliver(inbox, Receivers \ {f}, UpdateMsg(c, quote))
              /\ writeErrors' = writeErrors \cup {f}
         ELSE /\ inbox' = deliver(deliver(inbox, Receivers \cap Before(f),
                                          UpdateMsg(c, quote)),
                                  IF again THEN Receivers \cap Before(f)
                                  ELSE Receivers,
                                  ErrorMsg(c))
              /\ writeErrors' = writeErrors
    /\ cycles' = cycles \ {c}
    /\ reqs' = ReqsAfter(c)
    /\ UNCHANGED <<phase, schedVars, nextCycle, nextReq, lastResponse, clients, sockets,
                   events, upstream, timeVars, sourceVars, probes, healthTicks>>

\* the receive loop of the accepted connections
NextMessages ==
    \/ Listen
    \/ Connect
    \/ \E s \in DOMAIN sockets, raw \in RawMessages : Message(s, raw)
    \/ \E c \in cycles : CycleSucceeds(c)

SpecMessages == Init /\ [][NextMessages]_vars

\* the two liveness probes: the ping frames of the health check, answered by
\* pong frames, and the {type: "ping"} payloads of the clients
ProbeMessages == {"{\"type\":\"ping\"}", "{\"type\":\"mode\"}"}

NextHeartbeat ==
    \/ Listen
    \/ Connect
    \/ \E s \in DOMAIN sockets : Pong(s)
    \/ \E s \in DOMAIN sockets, raw \in ProbeMessages : Message(s, raw)
    \/ HealthTick

SpecHeartbeat == Init /\ [][NextHeartbeat]_vars

\* broadcasts to connections that come, fail and go, up to and after shutdown
NextBroadcast ==
    \/ Listen
    \/ Connect
    \/ LateConnect
    \/ \E s \in DOMAIN sockets : ClientClosing(s)
    \/ \E s \in DOMAIN sockets : ErrorEvent(s)
    \/ \E s \in DOMAIN sockets : CloseEvent(s)
    \/ HealthTick
    \/ \E c \in cycles : CycleSucceeds(c)
    \/ \E c \in cycles, f \in Receivers, how \in SendFailures, again \in BOOLEAN :
          CycleSendFails(c, f, how, again)
    \/ Sigterm

SpecBroadcast == Init /\ [][NextBroadcast]_vars

\* ws.on('message') on a socket the server is closing: after close() the
\* receiver still hands over what the peer sent before it saw the close frame
MessageWhileClosing(s, raw) ==
    /\ s \in DOMAIN sockets
    /\ sockets[s].readyState = "CLOSING"
    /\ Event
    /\ inbox' = sendToSocket(s, handleMessage(raw), MessageCause(s, raw))
    /\ UNCHANGED <<phase, schedVars, cycles, nextCycle, reqs, nextReq, lastResponse,
                   clients, sockets, upstream, timeVars, sourceVars, healthVars>>

\* the connections that come and go, the broadcasts, and the messages of
\* peers whose connection is going
NextRemoved ==
    \/ \E s \in DOMAIN sockets, raw \in ProbeMessages : MessageWhileClosing(s, raw)
    \/ NextBroadcast

SpecRemoved == Init /\ [][NextRemoved]_vars

(***************************************************************************)
(* modeManager.js called directly: filterByMode applied to a snapshot.     *)
(* The snapshot is fullData(currentMode, upstream), the call and what it   *)
(* returned are kept in lastResponse.                                      *)
(***************************************************************************)
\* a day with five events, the second one over
BusyCalendar ==
    [nextEvent |-> LiveCalendar.nextEvent,
     agenda |-> << [time |-> "8:00 AM", title |-> "Gym", done |-> FALSE,
                    location |-> "", isAllDay |-> FALSE],
                   [time |-> "9:00 AM", title |-> "Breakfast", done |-> TRUE,
                    location |-> "", isAllDay |-> FALSE],
                   [time |-> "2:00 PM", title |-> "Standup", done |-> FALSE,
                    location |-> "", isAllDay |-> FALSE],
                   [time |-> "3:00 PM", title |-> "Review", done |-> FALSE,
                    location |-> "", isAllDay |-> FALSE],
                   [time |-> "5:00 PM", title |-> "Pickup", done |-> FALSE,
                    location |-> "", isAllDay |-> FALSE] >>]

\* local events of other types among the art and music ones
MixedEvents ==
    << [title |-> "Food Festival", type |-> "food", time |-> "12:00 PM",
        venue |-> "Pier"],
       getLocalEvents[1],
       [title |-> "Farmers Market", type |-> "market", time |-> "9:00 AM",
        venue |-> "Square"],
       getLocalEvents[2],
       [title |-> "Indie Film", type |-> "film", time |-> "9:00 PM",
        venue |-> "Odeon"] >>

ActiveLLMMessage == [active |-> TRUE, message |-> "Leave now", urgency |-> "high"]

\* the keys a caller of filterByMode may leave out of the snapshot
Absences == {{}, {"todos", "agenda"}, {"localEvents"}}

\* what a snapshot handed to filterByMode can hold, each field on its own
FilterInputs ==
    {[weather |-> w, calendar |-> c, todos |-> t, localEvents |-> e,
      llmMessage |-> l, absent |-> a] :
        w \in {Null, DefaultWeather, LiveWeather},
        c \in {NoCalendar, LiveCalendar, BusyCalendar},
        t \in {<< >>, getMockTodos, LiveTodos},
        e \in {<< >>, getLocalEvents, MixedEvents},
        l \in {getLLMMessage, ActiveLLMMessage},
        a \in Absences}

\* the mode argument and the mode field of the snapshot
FilterModes == getAvailableModes \cup {"bogus"}

\* the snapshot made of the input in
Snapshot(mode, in) ==
    LET full == [mode |-> mode, weather |-> in.weather,
                 nextEvent |-> in.calendar.nextEvent, todos |-> in.todos,
                 agenda |-> in.calendar.agenda, localEvents |-> in.localEvents,
                 llmMessage |-> in.llmMessage]
    IN  [f \in DOMAIN full \ in.absent |-> full[f]]

\* filterByMode(mode, data) is called and returns
FilterCall(mode) ==
    /\ lastResponse = Null
    /\ \E quote \in QuoteDraws(mode) :
         lastResponse' =
            [id |-> 0, kind |-> "filter", mode |-> mode, quote |-> quote,
             input |-> Snapshot(currentMode, upstream),
             output |-> filterByMode(mode, Snapshot(currentMode, upstream), quote)]
    /\ UNCHANGED <<phase, schedVars, cycles, nextCycle, reqs, nextReq, connVars, events,
                   upstream, timeVars, sourceVars, healthVars>>

InitFilter ==
    /\ phase = "boot"
    /\ currentMode \in FilterModes
    /\ scheduledTask = 0
    /\ tasks = <<>>
    /\ cycles = {}
    /\ nextCycle = 1
    /\ reqs = {}
    /\ nextReq = 1
    /\ lastResponse = Null
    /\ clients = {}
    /\ sockets = <<>>
    /\ inbox = <<>>
    /\ events = 0
    /\ upstream \in FilterInputs
    /\ clock = 0
    /\ envInterval = 0
    /\ tickTimes = <<>>
    /\ InitIdle

NextFilter == \E mode \in FilterModes : FilterCall(mode)

SpecFilter == InitFilter /\ [][NextFilter]_vars

(***************************************************************************)
(* Properties.                                                             *)
(***************************************************************************)
\* the positions in socket s's inbox of the dashboard:update messages that
\* request r caused (through the cycle it started or through its own route)
UpdatesFor(s, r) ==
    {i \in DOMAIN inbox[s] : /\ inbox[s][i].event = "dashboard:update"
                             /\ inbox[s][i].cause.req = r}

\* the last response answers a request of this kind
Answered(kind) == lastResponse # Null /\ lastResponse.kind = kind

\* no cycle that request r started is still in flight
CyclesDone(r) == \A c \in cycles : c.req # r

\* C1: a successful change of the default view causes exactly one
\* dashboard:update broadcast to the connections open at that time: once the
\* request is answered and its cycle has finished, every socket that was open
\* when the request arrived and still is has received exactly one
\* dashboard:update because of it.
C1_ExactlyOneBroadcast ==
    (Answered("mode") /\ lastResponse.status = 200 /\ CyclesDone(lastResponse.id))
        => \A s \in lastResponse.openAt \cap Receivers :
              Cardinality(UpdatesFor(s, lastResponse.id)) = 1

\* C2: a snapshot request that names no view is answered with the data
\* shaped for the scheduler's current view (the view at the time of the
\* request).
C2_NoModeUsesCurrentView ==
    (Answered("data") /\ lastResponse.status = 200 /\ lastResponse.reqMode = NoMode)
        => \E quote \in QuoteDraws(lastResponse.view) :
              lastResponse.data =
                  getDashboardData(lastResponse.view, upstream, quote)

\* C3: a set-default-view request whose identifier is missing or outside the
\* five valid views is answered with an explicit invalid-view error, and the
\* step that handles it changes neither the current view nor the timer,
\* starts no cycle and sends no message.
C3_InvalidViewRejected ==
    [][ (/\ lastResponse' # lastResponse
         /\ lastResponse'.kind = "mode"
         /\ lastResponse'.reqMode \notin getAvailableModes)
        => (/\ lastResponse'.status = 400
            /\ lastResponse'.error \in {"Invalid mode", "Missing mode"}
            /\ UNCHANGED <<schedVars, cycles, reqs, inbox>>
            /\ \A c \in cycles : c.req # lastResponse'.id) ]_vars

\* C3 witness: a view was set, then an unknown identifier was rejected and
\* the view is still the one set before.
C3_Witness ==
    /\ Answered("mode")
    /\ lastResponse.reqMode = "bogus"
    /\ lastResponse.status = 400
    /\ lastResponse.view = "guest"
    /\ currentMode = "guest"

C5_BroadcastCarriesFilteredSnapshot ==
    \A s \in DOMAIN inbox : \A i \in DOMAIN inbox[s] :
        inbox[s][i].event = "dashboard:update"
            => \E quote \in QuoteDraws(inbox[s][i].cause.mode) :
                  inbox[s][i].data =
                      getDashboardData(inbox[s][i].cause.mode, upstream, quote)

\* the messages socket s has been sent
Msgs(s) == {inbox[s][i] : i \in DOMAIN inbox[s]}

AllMsgs == UNION {Msgs(s) : s \in DOMAIN inbox}

\* C6: starting the scheduler starts one refresh cycle in the same step,
\* before any timer tick, with the current view; when that view is weather
\* the cycle's broadcast is a dashboard:update whose data carries mode,
\* weather and localEvents and no todos, agenda or nextEvent.
C6_ImmediateWeatherCycle ==
    /\ [][ Cardinality(DOMAIN tasks') > Cardinality(DOMAIN tasks)
           => \E c \in cycles' :
                /\ cycles' \ cycles = {c}
                /\ c.origin = "start"
                /\ c.mode = currentMode
                /\ tickTimes' = tickTimes ]_vars
    /\ [](\A m \in AllMsgs :
            (m.cause.origin = "start" /\ m.cause.mode = "weather")
                => /\ m.event = "dashboard:update"
                   /\ DOMAIN m.data = {"mode", "weather", "localEvents"}
                   /\ m.data.mode = "weather"
                   /\ m.data.weather = upstream.weather
                   /\ m.data.localEvents = getLocalEvents)

\* C6 witness: a client has received the broadcast of the cycle that
\* startScheduler started while the view was weather.
C6_Witness ==
    \E m \in AllMsgs : m.cause.origin = "start" /\ m.cause.mode = "weather"

\* C7: a refresh cycle whose aggregation throws sends every open connection
\* one error message and no dashboard:update, leaves the timer as it is, and
\* a running timer can always tick again.
C7_FailedCycleBroadcastsError ==
    /\ [][ \A c \in cycles :
             CycleFails(c)
               => /\ \A s \in Receivers :
                       \E m \in Msgs(s)' :
                          /\ inbox'[s] = Append(inbox[s], m)
                          /\ m.event = "error"
                          /\ m.data.message = "Failed to refresh dashboard data"
                          /\ m.cause.id = c.id
                  /\ \A s \in DOMAIN inbox \ Receivers : inbox'[s] = inbox[s]
                  /\ UNCHANGED <<tasks, scheduledTask, currentMode>> ]_vars
    /\ [](\A s \in DOMAIN inbox : \A i, j \in DOMAIN inbox[s] :
            (/\ i # j
             /\ inbox[s][i].cause.by = "cycle failed"
             /\ inbox[s][j].cause.by \in {"cycle", "cycle failed"})
                => inbox[s][i].cause.id # inbox[s][j].cause.id)
    /\ [](\A t \in DOMAIN tasks :
            (tasks[t] = "running" /\ events < MaxEvents) => ENABLED Tick(t))

\* C7 witness: a client was sent the error of a failed cycle and a later
\* tick has started a new cycle.
C7_Witness ==
    \E m \in AllMsgs : \E c \in cycles :
        /\ m.event = "error"
        /\ m.cause.by = "cycle failed"
        /\ c.origin = "tick"
        /\ c.id > m.cause.id

\* C8: once stopScheduler has returned (the SIGTERM handler ran) no timer tick
\* starts a refresh cycle; stopping cancels no cycle in flight, and every
\* cycle in flight can still complete.
C8_NoTickAfterStop ==
    /\ [][ phase = "terminated" => \A c \in cycles' \ cycles : c.origin # "tick" ]_vars
    /\ [][ (phase # "terminated" /\ phase' = "terminated") => cycles' = cycles ]_vars
    /\ [](phase = "terminated" => \A c \in cycles : ENABLED CycleSucceeds(c))

\* C8 witness: the scheduler is stopped while a cycle that a tick started is
\* still in flight.
C8_Witness ==
    /\ phase = "terminated"
    /\ \E c \in cycles : c.origin = "tick"

\* C9: a refresh request starts exactly one cycle, with the current view of
\* that moment, and changes neither the view nor the timer; the cycle sends
\* each connection one dashboard:update of that view, whatever mode parameter
\* the request carried; answering the request sends nothing more.
C9_TriggerRefreshOneCycle ==
    /\ [][ \A r \in reqs' \ reqs :
             (r.kind = "refresh" /\ r.phase = "awaitCycle")
               => /\ \E c \in cycles' :
                       /\ cycles' \ cycles = {c}
                       /\ c.origin = "trigger"
                       /\ c.req = r.id
                       /\ c.mode = currentMode
                  /\ r.view = currentMode
                  /\ UNCHANGED <<schedVars, inbox>> ]_vars
    /\ [][ (lastResponse' # lastResponse /\ lastResponse'.kind = "refresh")
             => UNCHANGED <<schedVars, inbox, cycles>> ]_vars
    /\ [](\A s \in DOMAIN inbox : \A i \in DOMAIN inbox[s] :
            inbox[s][i].cause.origin = "trigger"
               => /\ inbox[s][i].event = "dashboard:update"
                  /\ inbox[s][i].data.mode = inbox[s][i].cause.mode
                  /\ UpdatesFor(s, inbox[s][i].cause.req) = {i}
                  /\ (Answered("refresh") /\ lastResponse.id = inbox[s][i].cause.req)
                        => inbox[s][i].data.mode = lastResponse.view)

\* C9 witness: a refresh request with mode=weather was answered with weather
\* data while the broadcast of its cycle carried the current view, personal.
C9_Witness ==
    /\ Answered("refresh")
    /\ lastResponse.reqMode = "weather"
    /\ lastResponse.status = 200
    /\ lastResponse.data.mode = "weather"
    /\ \E m \in AllMsgs :
          /\ m.cause.origin = "trigger"
          /\ m.cause.req = lastResponse.id
          /\ m.data.mode = "personal"

\* C10: for every configured interval of N >= 1 seconds, consecutive ticks of
\* the timer are N seconds apart, and every cycle a tick started uses the
\* current view.
C10_TickEveryNSeconds ==
    /\ (envInterval >= 1 /\ Len(tickTimes) = 2)
          => tickTimes[1] - tickTimes[2] = envInterval
    /\ \A c \in cycles : c.origin = "tick" => c.mode = currentMode

(***************************************************************************)
(* Properties of the weather cache.                                        *)
(***************************************************************************)
\* no live fetch has failed so far
FetchAlwaysSucceeds == \A j \in DOMAIN gets : gets[j].fetch # "failed"

\* call i had returned when call j was made
ReturnedBefore(i, j) == gets[i].order \in 1..gets[j].seen

\* C11 as claimed: while every fetch succeeds, of any two calls made less
\* than the lifetime apart at most one issues a live fetch, and a call made
\* when the stored value has reached the lifetime issues one.
C11_AtMostOneFetchWithinTTL ==
    FetchAlwaysSucceeds
        => /\ \A i, j \in DOMAIN gets :
                (i < j /\ gets[j].at - gets[i].at < CACHE_DURATION)
                    => ~(gets[i].fetch # "none" /\ gets[j].fetch # "none")
           /\ \A j \in DOMAIN gets :
                gets[j].age >= CACHE_DURATION => gets[j].fetch # "none"

\* C11 amended: while every fetch succeeds, of two calls made less than the
\* lifetime apart, the second made after the first returned, at most one
\* issues a live fetch (calls that overlap may each issue one), and a call
\* made when the stored value has reached the lifetime issues one.
C11_AtMostOneFetchSequential ==
    FetchAlwaysSucceeds
        => /\ \A i, j \in DOMAIN gets :
                (/\ i < j
                 /\ ReturnedBefore(i, j)
                 /\ gets[j].at - gets[i].at < CACHE_DURATION)
                    => ~(gets[i].fetch # "none" /\ gets[j].fetch # "none")
           /\ \A j \in DOMAIN gets :
                gets[j].age >= CACHE_DURATION => gets[j].fetch # "none"

\* C11 witness: a first call fetched, a second one a millisecond before the
\* lifetime ended was served from the cache, a third one after the lifetime
\* fetched again.
C11_Witness ==
    /\ Len(gets) = 3
    /\ FetchAlwaysSucceeds
    /\ gets[1].fetch = "ok"
    /\ gets[2].fetch = "none" /\ gets[2].age = CACHE_DURATION - 1
    /\ gets[2].ret = gets[1].ret
    /\ gets[3].fetch = "ok" /\ gets[3].age >= CACHE_DURATION

\* the calls whose fetch succeeded and that returned before call j did
StoredBefore(j) ==
    {i \in DOMAIN gets : gets[i].fetch = "ok" /\ gets[i].order < gets[j].order}

\* the call of the non-empty set S that returned last
LastOf(S) == CHOOSE i \in S : \A k \in S : gets[k].order <= gets[i].order

\* C12: a call whose live fetch fails after an earlier call's fetch succeeded
\* returns the value stored then (that of the last successful fetch), not
\* null, however old that value is.
C12_StaleFallback ==
    \A j \in DOMAIN gets :
        (gets[j].fetch = "failed" /\ StoredBefore(j) # {})
            => /\ gets[j].ret # Null
               /\ gets[j].ret = gets[LastOf(StoredBefore(j))].ret

\* C12 witness: a call whose fetch failed returned a value stored two cache
\* lifetimes earlier.
C12_Witness ==
    \E j \in DOMAIN gets :
        /\ gets[j].fetch = "failed"
        /\ gets[j].ret # Null
        /\ gets[j].retAge >= 2 * CACHE_DURATION

\* C13: every value a call returns is younger than the cache lifetime, or is
\* returned by a call whose own live fetch failed.
C13_FreshOrFailed ==
    \A j \in Returned :
        gets[j].ret # Null
            => \/ gets[j].retAge \in 0..(CACHE_DURATION - 1)
               \/ gets[j].fetch = "failed"

\* C13 witness: one call was served from the cache a millisecond before the
\* lifetime ended, and another, whose fetch failed, returned a value that had
\* outlived it.
C13_Witness ==
    \E i, j \in Returned :
        /\ gets[i].fetch = "none"
        /\ gets[i].ret # Null
        /\ gets[i].retAge = CACHE_DURATION - 1
        /\ gets[j].fetch = "failed"
        /\ gets[j].ret # Null
        /\ gets[j].retAge >= CACHE_DURATION

\* the calls whose fetch succeeded
Succeeded == {j \in DOMAIN gets : gets[j].fetch = "ok"}

\* C18: the stored value and its timestamp always come from one and the same
\* successful fetch (or both are null), and once every call has returned the
\* stored value is that of the successful fetch that completed last.
C18_LastSuccessfulFetchWins ==
    /\ \/ cachedWeather = Null /\ cacheTimestamp = 0
       \/ \E j \in Succeeded :
             cachedWeather = gets[j].ret /\ cacheTimestamp = gets[j].retAt
    /\ Pending = {}
          => IF Succeeded = {}
             THEN cachedWeather = Null
             ELSE /\ cachedWeather = gets[LastOf(Succeeded)].ret
                  /\ cacheTimestamp = gets[LastOf(Succeeded)].retAt

\* C18 witness: two calls overlapped, both fetched, the fetch of the later
\* call completed first, and the stored value is that of the earlier call.
C18_Witness ==
    /\ Pending = {}
    /\ \E i, j \in Succeeded :
          /\ i < j
          /\ gets[j].seen < gets[i].order
          /\ gets[j].order < gets[i].order
          /\ LastOf(Succeeded) = i
          /\ cachedWeather = gets[i].ret

(***************************************************************************)
(* Properties of the aggregation.                                          *)
(***************************************************************************)
\* the invocations of getDashboardData that have resolved
Done == {a \in DOMAIN aggs : aggs[a].pc = "done"}

\* the call of source src by invocation a found the source failing or not
\* configured
Unavailable(a, src) == aggs[a].outcome[src] \in {"failed", "unconfigured"}

\* C14 as claimed: a source that fails or is not configured, and has no
\* cached value, leaves its field null or empty: todos is empty, nextEvent
\* is null, agenda is empty.
C14_UnavailableSourceIsEmpty ==
    \A a \in Done :
        /\ Unavailable(a, "todos") => aggs[a].result.todos = <<>>
        /\ Unavailable(a, "nextEvent") => aggs[a].result.nextEvent = Null
        /\ Unavailable(a, "agenda") => aggs[a].result.agenda = <<>>

\* C15: whatever subset of the fetches of an aggregation fails, the
\* aggregation can always take its next step, and it resolves to a snapshot
\* in which every source whose fetch succeeded contributes what was fetched
\* and every other source its fallback or empty value.
C15_AggregationNeverFails ==
    /\ \A a \in DOMAIN aggs \ Done :
          \/ ENABLED AggAfterWeather(a)
          \/ ENABLED (FetchResolves(aggs[a].get) \/ FetchRejects(aggs[a].get))
          \/ \E o \in {"ok", "failed", "unconfigured"} :
                \/ ENABLED NextEventSettles(a, o)
                \/ ENABLED TodosSettle(a, o)
                \/ ENABLED AgendaSettles(a, o)
    /\ \A a \in Done :
          LET o == aggs[a].outcome
              r == aggs[a].result
              g == aggs[a].get
          IN  /\ r # Null
              /\ r.mode = aggs[a].mode
              /\ o["weather"] = "ok" => r.weather = Reading(g)
              /\ o["weather"] = "failed"
                    => r.weather = IF StoredBefore(g) # {}
                                   THEN Reading(LastOf(StoredBefore(g)))
                                   ELSE DefaultWeather
              /\ o["weather"] = "none"
                    => r.weather = IF env.weather
                                   THEN Reading(LastOf(StoredBefore(g)))
                                   ELSE DefaultWeather
              /\ r.nextEvent = IF o["nextEvent"] = "ok"
                               THEN LiveCalendar.nextEvent ELSE Null
              /\ r.todos = IF o["todos"] = "ok" THEN LiveTodos ELSE getMockTodos
              /\ r.agenda = IF o["agenda"] = "ok" THEN LiveCalendar.agenda ELSE <<>>
              /\ r.localEvents = getLocalEvents
              /\ r.llmMessage = getLLMMessage

\* C15 witness: an aggregation resolved although its weather fetch failed
\* (the stale reading of an earlier aggregation was served), its Todoist
\* fetch and its second calendar fetch failed, and its first calendar fetch
\* succeeded.
C15_Witness ==
    \E a \in Done :
        /\ aggs[a].outcome["weather"] = "failed"
        /\ aggs[a].result.weather \notin {Null, DefaultWeather}
        /\ aggs[a].outcome["nextEvent"] = "ok"
        /\ aggs[a].result.nextEvent = LiveCalendar.nextEvent
        /\ aggs[a].outcome["todos"] = "failed"
        /\ aggs[a].outcome["agenda"] = "failed"

\* C16 as claimed: the fetches of one aggregation are issued concurrently, so
\* while its weather fetch is still in flight the other sources have been
\* called as well.
C16_SourcesFetchedConcurrently ==
    \A a \in DOMAIN aggs :
        (aggs[a].pc = "weather" /\ aggs[a].get \in Pending)
            => aggs[a].started = {Sources[i] : i \in DOMAIN Sources}

\* C17 as claimed: every fetch ends within its timeout, so every aggregation
\* that starts (and with it the refresh cycle awaiting it) eventually
\* completes.
C17_EveryAggregationCompletes ==
    \A a \in 1..MaxAggs : (a \in DOMAIN aggs) ~> (a \in Done)

(***************************************************************************)
(* Properties of the connections.                                          *)
(***************************************************************************)
\* C19: the connection count grows by exactly 1 on each accept and shrinks
\* by exactly 1 on the close or the error of a connection that is counted;
\* a close or an error of a connection that is no longer counted leaves it
\* unchanged, and a connection that left the count never returns to it.
C19_CountTracksConnections ==
    /\ [][ DOMAIN sockets' # DOMAIN sockets
             => getActiveConnectionCount' = getActiveConnectionCount + 1 ]_vars
    /\ [][ \A s \in DOMAIN sockets :
             (CloseEvent(s) \/ ErrorEvent(s))
                => getActiveConnectionCount' =
                      getActiveConnectionCount - (IF s \in clients THEN 1 ELSE 0) ]_vars
    /\ [][ \A s \in DOMAIN sockets : s \notin clients => s \notin clients' ]_vars
    /\ [](\A s \in DOMAIN sockets :
            /\ sockets[s].readyState = "OPEN" => s \in clients
            /\ s \in clients => sockets[s].readyState # "CLOSED")

\* C19 witness: a connection was accepted, left the count when the health
\* check terminated it, and its close event then ran with the count at 0.
C19_Witness ==
    /\ phase = "listening"
    /\ getActiveConnectionCount = 0
    /\ \E s \in DOMAIN sockets :
          /\ sockets[s].readyState = "CLOSED"
          /\ ProbesOf(s) = 2

\* C20: no connection stays in the live set through two health checks without
\* acknowledging a ping in between: the health check that finds a client
\* unacknowledged removes it from the live set and terminates it.
C20_UnacknowledgedIsTerminated ==
    /\ [](\A s \in clients : ProbesOf(s) <= 1)
    /\ [][ healthTicks' # healthTicks
             => \A s \in clients :
                   ~sockets[s].isAlive
                      => /\ s \notin clients'
                         /\ sockets'[s].readyState # "OPEN" ]_vars

\* C20 witness: a connection that never acknowledged was terminated by the
\* second health check it met.
C20_Witness ==
    \E s \in DOMAIN sockets :
        /\ ProbesOf(s) = 2
        /\ s \notin clients
        /\ sockets[s].readyState = "CLOSING"
        /\ ~sockets[s].isAlive
        /\ phase = "listening"

(***************************************************************************)
(* Properties of the liveness flag and the inbound messages.               *)
(***************************************************************************)
\* C21: the liveness flag of a connection goes from false to true only in
\* its pong handler; a connection that has acknowledged every ping it was
\* sent is flagged alive and the health check leaves it in the live set and
\* in its state; handling a payload, {type: "ping"} included, leaves every
\* liveness flag as it was.
C21_OnlyPongRestoresLiveness ==
    /\ [][ \A s \in DOMAIN sockets :
             ~sockets[s].isAlive /\ sockets'[s].isAlive => Pong(s) ]_vars
    /\ [](\A s \in DOMAIN sockets : ProbesOf(s) = 0 => sockets[s].isAlive)
    /\ [][ healthTicks' # healthTicks
             => \A s \in clients :
                   sockets[s].isAlive
                      => /\ s \in clients'
                         /\ sockets'[s].readyState = sockets[s].readyState ]_vars
    /\ [][ \A s \in DOMAIN sockets, raw \in ProbeMessages :
             Message(s, raw) => sockets' = sockets ]_vars

\* C21 witness: a connection came through two health checks by answering the
\* ping, then sent {type: "ping"} while flagged not alive, was answered with
\* a pong event and is still flagged not alive.
C21_Witness ==
    \E s \in clients :
        /\ healthTicks >= 2
        /\ ProbesOf(s) = 1
        /\ ~sockets[s].isAlive
        /\ \E i \in DOMAIN inbox[s] : inbox[s][i].event = "pong"

(***************************************************************************)
(* Properties of the broadcast.                                            *)
(***************************************************************************)
\* the positions of the dashboard:update and error messages in a mailbox
Broadcasts(box) == {i \in DOMAIN box : box[i].cause.by \in {"cycle", "route"}}

\* C22: a broadcast message is written only to a connection that is in the
\* live set and OPEN when broadcast is called; no connection is ever in the
\* live set in a state before OPEN.
C22_BroadcastOnlyToOpenLive ==
    /\ [][ \A s \in DOMAIN inbox :
             Broadcasts(inbox'[s]) # Broadcasts(inbox[s])
                => s \in clients /\ sockets[s].readyState = "OPEN" ]_vars
    /\ [](\A s \in DOMAIN sockets :
            sockets[s].readyState \in {"OPEN", "CLOSING", "CLOSED"})

\* C22 witness: of two accepted connections the first had left OPEN when the
\* broadcast was made: the second holds the update, the first does not.
C22_Witness ==
    \E s1, s2 \in DOMAIN sockets :
        /\ s1 < s2
        /\ sockets[s1].readyState = "CLOSING"
        /\ Broadcasts(inbox[s1]) = {}
        /\ Broadcasts(inbox[s2]) # {}
        /\ writeErrors = {}

\* C23: when the write to one connection fails during the broadcast of a
\* cycle, every other OPEN connection of the live set is still written the
\* dashboard:update, and the failing connection has its removal pending (its
\* 'error' event, whose handler deletes it, is due).
C23_FailedSendDoesNotAbort ==
    [][ \A c \in cycles, f \in Receivers, how \in SendFailures, again \in BOOLEAN :
          CycleSendFails(c, f, how, again)
             => /\ \A s \in Receivers \ {f} :
                      \E i \in Broadcasts(inbox'[s]) \ Broadcasts(inbox[s]) :
                          inbox'[s][i].event = "dashboard:update"
                /\ f \in writeErrors' ]_vars

(***************************************************************************)
(* Properties of the inbound messages.                                     *)
(***************************************************************************)
\* the payloads JSON.parse rejects
Malformed == {raw \in RawMessages : JSONparse(raw) = SyntaxError}

\* mailbox box with one message more, of event kind
OneMore(old, box, kind) ==
    /\ Len(box) = Len(old) + 1
    /\ SubSeq(box, 1, Len(old)) = old
    /\ box[Len(box)].event = kind

WellFormed == RawMessages \ Malformed

\* C25: a payload that parses, from an open connection, is answered with
\* exactly one message, to that connection and to no other: a pong event when
\* the parsed value has type "ping", else an echo event whose data is the
\* parsed value.
C25_OneReplyPerWellFormedMessage ==
    [][ \A s \in DOMAIN sockets, raw \in WellFormed :
          Message(s, raw)
             => /\ \A t \in DOMAIN inbox \ {s} : inbox'[t] = inbox[t]
                /\ IF TypeOf(JSONparse(raw)) = "ping"
                   THEN OneMore(inbox[s], inbox'[s], "pong")
                   ELSE /\ OneMore(inbox[s], inbox'[s], "echo")
                        /\ inbox'[s][Len(inbox'[s])].data = JSONparse(raw) ]_vars

(***************************************************************************)
(* Properties of accept and shutdown.                                      *)
(***************************************************************************)
\* C26: the first message of every accepted connection is the connection
\* message carrying the identifier of that connection, and it gets no
\* second one: every dashboard:update and error it receives comes after.
C26_WelcomeFirstAndOnce ==
    \A s \in DOMAIN sockets :
        /\ s \in DOMAIN inbox
        /\ Len(inbox[s]) >= 1
        /\ inbox[s][1].event = "connection"
        /\ inbox[s][1].data.clientId = s
        /\ \A i \in DOMAIN inbox[s] : i > 1 => inbox[s][i].event # "connection"

\* C26 witness: two connections were welcomed, each with its own identifier,
\* and the update of a broadcast is the second message of both.
C26_Witness ==
    \E s, t \in DOMAIN sockets :
        /\ s # t
        /\ Len(inbox[s]) = 2 /\ Len(inbox[t]) = 2
        /\ inbox[s][1].data.clientId # inbox[t][1].data.clientId
        /\ inbox[s][2].event = "dashboard:update"
        /\ inbox[t][2].event = "dashboard:update"

\* C27: once SIGTERM has run shutdown(), the health check never fires again;
\* shutdown() leaves no connection of the live set OPEN (each was sent the
\* close frame); the live set is empty from then on, and no broadcast of a
\* cycle or a route reaches any connection.
C27_NothingLiveAfterShutdown ==
    /\ [][ phase = "terminated" => healthTicks' = healthTicks ]_vars
    /\ [][ phase # "terminated" /\ phase' = "terminated"
             => \A s \in clients : sockets'[s].readyState # "OPEN" ]_vars
    /\ [](phase = "terminated" => getActiveConnectionCount = 0)
    /\ [][ phase = "terminated"
             => \A s \in DOMAIN inbox :
                   Broadcasts(inbox'[s]) = Broadcasts(inbox[s]) ]_vars

(***************************************************************************)
(* Properties of the scheduler's view and of the snapshot read.            *)
(***************************************************************************)
\* C28: currentMode is "personal" at the start and one of the five modes in
\* every state; a call of setMode with any other identifier leaves it as it
\* was.
C28_CurrentViewAlwaysValid ==
    /\ currentMode = "personal"
    /\ [](isValidMode(currentMode))
    /\ [][ \A m \in SetModeArgs :
             SetModeCall(m) /\ ~isValidMode(m) => currentMode' = currentMode ]_vars

\* the steps of GET /api/dashboard/data: its handler suspends at its await
\* or resumes from it, or it answers
DataRouteStep ==
    \/ \E r \in (reqs' \ reqs) \cup (reqs \ reqs') : r.kind = "data"
    \/ lastResponse' # lastResponse /\ lastResponse'.kind = "data"

\* C29: no step of GET /api/dashboard/data, with or without a mode in the
\* query, changes currentMode, the cron task or the cycles in flight, and
\* none writes a message to any connection.
C29_SnapshotReadIsReadOnly ==
    [][ DataRouteStep => UNCHANGED <<schedVars, cycles, nextCycle, connVars>> ]_vars

\* C29 witness: a read with mode=guest was answered with the guest snapshot
\* while the current view is personal, and the connected client has received
\* nothing beyond its welcome.
C29_Witness ==
    /\ Answered("data")
    /\ lastResponse.status = 200
    /\ lastResponse.reqMode = "guest"
    /\ lastResponse.data.mode = "guest"
    /\ currentMode = "personal"
    /\ \E s \in clients : Len(inbox[s]) = 1

(***************************************************************************)
(* Properties of the filter.                                               *)
(***************************************************************************)
\* C30: filterByMode("personal", s) is s, for every snapshot s.
C30_PersonalIsIdentity ==
    Answered("filter") /\ lastResponse.mode = "personal"
        => lastResponse.output = lastResponse.input

\* C30 witness: a snapshot with live weather, a next event and live todos
\* went through the personal filter and came out with all of them.
C30_Witness ==
    /\ Answered("filter")
    /\ lastResponse.mode = "personal"
    /\ upstream.absent = {}
    /\ lastResponse.input.todos = LiveTodos
    /\ lastResponse.input.nextEvent # Null
    /\ lastResponse.output.todos = LiveTodos
    /\ lastResponse.output.nextEvent = LiveCalendar.nextEvent
    /\ lastResponse.output.weather = LiveWeather

\* the list under key f of a snapshot, empty when the key is absent
ListOf(data, f) == IF Has(data, f) THEN data[f] ELSE << >>

\* the positions of the agenda items that are not done
NotDoneAt(agenda) == {i \in DOMAIN agenda : ~agenda[i].done}

\* the position of the k-th agenda item that is not done
KthNotDone(agenda, k) ==
    CHOOSE i \in NotDoneAt(agenda) :
        Cardinality({j \in NotDoneAt(agenda) : j <= i}) = k

FirstThreeNotDone(agenda) ==
    LET n == Cardinality(NotDoneAt(agenda))
    IN  [k \in 1..(IF n < 3 THEN n ELSE 3) |-> agenda[KthNotDone(agenda, k)]]

\* C31: in the briefing output of every snapshot, urgentTodoCount is at most
\* todoCount, todoCount and agendaCount are the lengths of the task and the
\* agenda list (0 for an absent list), and upcomingAgenda is the first three
\* agenda items that are not done, in their order (all of them if fewer).
C31_BriefingCounts ==
    Answered("filter") /\ lastResponse.mode = "briefing"
        => LET sum == lastResponse.output.summary
               in == lastResponse.input
           IN  /\ sum.urgentTodoCount <= sum.todoCount
               /\ sum.todoCount = Len(ListOf(in, "todos"))
               /\ sum.agendaCount = Len(ListOf(in, "agenda"))
               /\ sum.upcomingAgenda = FirstThreeNotDone(ListOf(in, "agenda"))

\* C31 witness: a snapshot with five agenda items, the second done, and three
\* tasks, one urgent, was condensed: the summary lists the first, third and
\* fourth item.
C31_Witness ==
    /\ Answered("filter")
    /\ lastResponse.mode = "briefing"
    /\ upstream.absent = {}
    /\ lastResponse.input.agenda = BusyCalendar.agenda
    /\ lastResponse.input.todos = getMockTodos
    /\ lastResponse.output.summary.urgentTodoCount = 1
    /\ lastResponse.output.summary.agendaCount = 5
    /\ lastResponse.output.summary.upcomingAgenda =
          << BusyCalendar.agenda[1], BusyCalendar.agenda[3], BusyCalendar.agenda[4] >>

\* C32: every weather record of the briefing output, the one of the output
\* itself and the one of its summary, has no attribute besides temp and
\* condition.
C32_BriefingWeatherIsCondensed ==
    Answered("filter") /\ lastResponse.mode = "briefing"
        => \A w \in {lastResponse.output.weather, lastResponse.output.summary.weather} :
              w # Null => DOMAIN w \subseteq {"temp", "condition"}

\* the positions of the local events whose type is art or music
ArtOrMusicAt(evs) == {i \in DOMAIN evs : evs[i].type \in {"art", "music"}}

\* the subsequence of the local events at the positions ArtOrMusicAt, in order
ArtOrMusicOf(evs) ==
    LET at == ArtOrMusicAt(evs)
        kth(k) == CHOOSE i \in at : Cardinality({j \in at : j <= i}) = k
    IN  [k \in 1..Cardinality(at) |-> evs[kth(k)]]

\* C33: for the art view and every snapshot, the returned localEvents is the
\* subsequence of the input's local events whose type is art or music, in the
\* input's order, and the empty list when the input has no list.
C33_ArtKeepsArtAndMusic ==
    Answered("filter") /\ lastResponse.mode = "art"
        => lastResponse.output.localEvents =
              ArtOrMusicOf(ListOf(lastResponse.input, "localEvents"))

\* C33 witness: five local events, the second a concert and the fourth an
\* exhibition, were filtered for the art view: those two are returned, the
\* concert first.
C33_Witness ==
    /\ Answered("filter")
    /\ lastResponse.mode = "art"
    /\ upstream.absent = {}
    /\ lastResponse.input.localEvents = MixedEvents
    /\ lastResponse.output.localEvents = << MixedEvents[2], MixedEvents[4] >>

\* the snapshots that differ from the one filtered at most in tasks, agenda,
\* next event and assistant message
SameWeatherAndEvents ==
    {Snapshot(currentMode,
              [upstream EXCEPT !.calendar = c, !.todos = t, !.llmMessage = l,
                               !.absent = (@ \ {"todos", "agenda"}) \cup a]) :
        c \in {NoCalendar, LiveCalendar, BusyCalendar},
        t \in {<< >>, getMockTodos, LiveTodos},
        l \in {getLLMMessage, ActiveLLMMessage},
        a \in {{}, {"todos", "agenda"}}}

\* C34: the guest and the weather output of a snapshot, with the same quote
\* drawn, is the output of every snapshot that differs from it only in tasks,
\* agenda, next event or assistant message, and so is the data broadcast for
\* it, which holds nothing but mode, weather and local events.
C34_GuestOutputIgnoresPersonalFields ==
    Answered("filter") /\ lastResponse.mode \in {"guest", "weather"}
        => /\ \A other \in SameWeatherAndEvents :
                /\ filterByMode(lastResponse.mode, other, lastResponse.quote)
                      = lastResponse.output
                /\ sendDashboardUpdate(filterByMode(lastResponse.mode, other,
                                                    lastResponse.quote))
                      = sendDashboardUpdate(lastResponse.output)
           /\ DOMAIN sendDashboardUpdate(lastResponse.output)
                 \subseteq {"mode", "weather", "localEvents"}

\* C34 witness: a snapshot with live tasks, a busy calendar and an active
\* assistant message was filtered for the guest view; the output has the
\* weather and the local events of the snapshot.
C34_Witness ==
    /\ Answered("filter")
    /\ lastResponse.mode = "guest"
    /\ upstream.absent = {}
    /\ lastResponse.input.todos = LiveTodos
    /\ lastResponse.input.agenda = BusyCalendar.agenda
    /\ lastResponse.input.llmMessage = ActiveLLMMessage
    /\ lastResponse.output.weather = LiveWeather
    /\ lastResponse.output.localEvents = MixedEvents

\* C35: on no connection is the dashboard:update of the cycle a mode change
\* started followed by the dashboard:update of a cycle that was started
\* before it under another view.
C35_NoStaleViewAfterModeChange ==
    \A s \in DOMAIN inbox :
        \A i, j \in DOMAIN inbox[s] :
            /\ i < j
            /\ inbox[s][i].cause.by = "cycle"
            /\ inbox[s][i].cause.origin = "setMode"
            /\ inbox[s][j].cause.by = "cycle"
            /\ inbox[s][j].cause.id < inbox[s][i].cause.id
            => inbox[s][j].cause.mode = inbox[s][i].cause.mode

\* C36: in every aggregation that resolved, the calendar fetch behind
\* nextEvent and the calendar fetch behind agenda had the same outcome.
C36_OneCalendarFetchPerSnapshot ==
    \A a \in Done : aggs[a].outcome["nextEvent"] = aggs[a].outcome["agenda"]

\* the latest call of getWeather to return was a live fetch that failed and
\* had nothing fresh to serve: nothing, or a reading past its lifetime
FailedLast ==
    \E j \in Returned :
        /\ gets[j].order = Cardinality(Returned)
        /\ gets[j].fetch = "failed"
        /\ gets[j].ret = Null \/ gets[j].retAge >= CACHE_DURATION

\* C37: a step in which a live fetch fails changes neither the cached value
\* nor its timestamp; while the latest call to return is such a failure the
\* cache is not valid, and a call of getWeather made then attempts a live
\* fetch; the cached value is null exactly when the timestamp is null.
C37_FailedFetchLeavesCache ==
    /\ [][/\ \A j \in DOMAIN gets :
                gets[j].fetch = "pending" /\ gets'[j].fetch = "failed"
                    => cachedWeather' = cachedWeather /\ cacheTimestamp' = cacheTimestamp
          /\ FailedLast /\ Len(gets') = Len(gets) + 1
                => gets'[Len(gets')].fetch = "pending"]_vars
    /\ [](FailedLast => ~cacheValid)
    /\ []((cachedWeather = Null) <=> (cacheTimestamp = 0))

\* C37 witness: the first fetch stored a reading, the second call came after
\* its lifetime, failed and served that reading, the cache still holds it with
\* the timestamp of the first store, and the third call is fetching again.
C37_Witness ==
    /\ Len(gets) = 3
    /\ gets[1].fetch = "ok"
    /\ gets[2].fetch = "failed"
    /\ gets[2].ret = Reading(1)
    /\ gets[2].retAge >= CACHE_DURATION
    /\ gets[3].fetch = "pending"
    /\ gets[3].at >= gets[2].retAt
    /\ cachedWeather = Reading(1)
    /\ cacheTimestamp = gets[1].retAt

\* C38: in no step is a connection outside the live set written to or put
\* into the set, and the close event of a connection that is already outside
\* the set (as after a heartbeat termination) leaves the set as it is.
C38_RemovedStaysRemoved ==
    [][\A s \in DOMAIN sockets \ clients :
          /\ s \notin clients'
          /\ inbox'[s] = inbox[s]
          /\ sockets[s].readyState # "CLOSED" /\ sockets'[s].readyState = "CLOSED"
                => Cardinality(clients') = Cardinality(clients)]_vars

\* C38 witness: a connection was terminated by the health check (it missed
\* two of them) and its close event has been handled since; the refresh cycle
\* has finished, and the connection has been sent nothing but its welcome.
C38_Witness ==
    \E s \in DOMAIN sockets :
        /\ s \notin clients
        /\ clients = {}
        /\ s \in DOMAIN probes
        /\ probes[s] >= 2
        /\ sockets[s].readyState = "CLOSED"
        /\ cycles = {}
        /\ Len(inbox[s]) = 1
        /\ inbox[s][1].cause.by = "accept"

\* C39: whatever calls of startScheduler and stopScheduler were made, at most
\* one cron task is running.
C39_AtMostOneTimer ==
    Cardinality({t \in DOMAIN tasks : tasks[t] = "running"}) <= 1

\* C40: the step that accepts a connection gives it the connection message
\* and nothing else, and writes to no other connection; a connection is
\* written to only in a step that ends a refresh cycle or a mode request that
\* were in progress; and the step that ends a cycle appends that cycle's
\* dashboard:update to every open connection of the live set, whenever it
\* was accepted.
C40_WelcomeOnlyThenNextBroadcast ==
    /\ [][\A s \in DOMAIN sockets' \ DOMAIN sockets :
            /\ Len(inbox'[s]) = 1
            /\ inbox'[s][1].event = "connection"
            /\ \A t \in DOMAIN inbox : inbox'[t] = inbox[t]]_vars
    /\ [][\A s \in DOMAIN inbox :
            inbox'[s] # inbox[s]
                => /\ Len(inbox'[s]) = Len(inbox[s]) + 1
                   /\ \/ \E c \in cycles \ cycles' :
                            inbox'[s][Len(inbox'[s])].cause = CycleCause(c)
                      \/ \E r \in reqs \ reqs' :
                            /\ r.kind = "mode"
                            /\ inbox'[s][Len(inbox'[s])].cause = RouteCause(r)]_vars
    /\ [][\A c \in cycles \ cycles' : \A s \in Receivers :
            /\ Len(inbox'[s]) = Len(inbox[s]) + 1
            /\ inbox'[s][Len(inbox'[s])].event = "dashboard:update"
            /\ inbox'[s][Len(inbox'[s])].cause = CycleCause(c)]_vars

\* C40 witness: one client connected while the first cycle was aggregating
\* and has its update after the welcome; another connected after that cycle,
\* no cycle is in flight, and it has the welcome only.
C40_Witness ==
    \E s, t \in clients :
        /\ s < t
        /\ cycles = {}
        /\ Len(inbox[s]) = 2
        /\ inbox[s][2].event = "dashboard:update"
        /\ inbox[s][2].cause.origin = "start"
        /\ Len(inbox[t]) = 1
        /\ inbox[t][1].event = "connection"

====
